---------------------------- MODULE Spec2Model ----------------------------
(***************************************************************************)
(* Model of the diff pipeline of Hurtak/differ (src/src/domain/diff.ts).   *)
(*                                                                         *)
(* Strings are sequences of one-character strings.  Lines are built from   *)
(* word characters only; cells may also hold commas and double quotes.     *)
(* White space other than the line separator occurs in header labels and   *)
(* in the strings given to computeWordChanges when it is called alone.     *)
(***************************************************************************)
EXTENDS Integers, Sequences, FiniteSets, TLC

\* ------------------------------------------------------------------------
\* Bounds of the model
\* ------------------------------------------------------------------------
MaxLines == 3
MaxCells == 2

\* ------------------------------------------------------------------------
\* Alphabet
\* ------------------------------------------------------------------------
NL == "\n"
QUOTE == "\""
COMMA == ","
CR == "\r"

LineValues == { <<>>, <<"a">>, <<"b">> }

\* Letters and digits that occur in the modelled texts
WordChars ==
  { "a", "b", "e", "l", "m", "u", "N", "V", "0", "1", "2", "3", "4", "5", "6", "7", "8", "9" }

\* Source texts of one CSV field: empty, plain, wrapped in quotes, wrapped
\* with escaped quotes inside, wrapped with a comma inside
FieldTexts ==
  { <<>>, <<"a">>, <<"b">>,
    <<QUOTE, "a", QUOTE>>,
    <<QUOTE, QUOTE, QUOTE, "a", QUOTE, QUOTE, QUOTE>>,
    <<QUOTE, "a", COMMA, "b", QUOTE>> }

\* ------------------------------------------------------------------------
\* Generic helpers (JavaScript built-ins used by the source)
\* ------------------------------------------------------------------------
Max(a, b) == IF a >= b THEN a ELSE b

Min(a, b) == IF a <= b THEN a ELSE b

SeqsUpTo(S, n) == UNION { [1..k -> S] : k \in 0..n }

RECURSIVE Flatten(_)
Flatten(ss) == IF ss = <<>> THEN <<>> ELSE Head(ss) \o Flatten(Tail(ss))

RECURSIVE Join(_, _)
Join(ss, sep) ==
  IF ss = <<>> THEN <<>>
  ELSE IF Len(ss) = 1 THEN Head(ss)
  ELSE Head(ss) \o <<sep>> \o Join(Tail(ss), sep)

\* String.prototype.split with a one-character separator
RECURSIVE Split(_, _)
Split(s, sep) ==
  IF \A k \in 1..Len(s) : s[k] # sep THEN << s >>
  ELSE LET p == CHOOSE k \in 1..Len(s) : s[k] = sep /\ \A m \in 1..(k-1) : s[m] # sep
       IN << SubSeq(s, 1, p - 1) >> \o Split(SubSeq(s, p + 1, Len(s)), sep)

\* ------------------------------------------------------------------------
\* The sequence aligner used by diff.diffArrays and diff.diffWords
\* (package "diff": Myers' O(ND) search over diagonals oldPos - newPos,
\* positions are 0-based indices of the last consumed token, -1 at start)
\* ------------------------------------------------------------------------
NoPath == [def |-> FALSE, oldPos |-> -1, comps |-> <<>>]

RECURSIVE CommonCount(_, _, _, _)
CommonCount(oldTokens, newTokens, oldPos, newPos) ==
  IF /\ newPos + 1 < Len(newTokens)
     /\ oldPos + 1 < Len(oldTokens)
     /\ oldTokens[oldPos + 2] = newTokens[newPos + 2]
  THEN 1 + CommonCount(oldTokens, newTokens, oldPos + 1, newPos + 1)
  ELSE 0

extractCommon(basePath, newTokens, oldTokens, diagonalPath) ==
  LET n == CommonCount(oldTokens, newTokens, basePath.oldPos,
                       basePath.oldPos - diagonalPath)
  IN [def |-> TRUE,
      oldPos |-> basePath.oldPos + n,
      comps |-> basePath.comps \o [k \in 1..n |-> "keep"]]

addToPath(path, op, oldPosInc) ==
  [def |-> TRUE, oldPos |-> path.oldPos + oldPosInc, comps |-> Append(path.comps, op)]

RECURSIVE execEditLength(_, _, _, _, _, _, _)
execEditLength(oldTokens, newTokens, bestPath, editLength, diagonalPath, minDiagonalToConsider, maxDiagonalToConsider) ==
  LET oldLen == Len(oldTokens)
      newLen == Len(newTokens)
  IN
  IF diagonalPath > Min(maxDiagonalToConsider, editLength)
  THEN execEditLength(oldTokens, newTokens, bestPath, editLength + 1,
                      Max(minDiagonalToConsider, -(editLength + 1)),
                      minDiagonalToConsider, maxDiagonalToConsider)
  ELSE
    LET removePath == bestPath[diagonalPath - 1]
        addPath == bestPath[diagonalPath + 1]
        cleared == IF removePath.def
                   THEN [bestPath EXCEPT ![diagonalPath - 1] = NoPath]
                   ELSE bestPath
        canAdd == /\ addPath.def
                  /\ 0 <= addPath.oldPos - diagonalPath
                  /\ addPath.oldPos - diagonalPath < newLen
        canRemove == removePath.def /\ removePath.oldPos + 1 < oldLen
    IN
    IF ~canAdd /\ ~canRemove
    THEN execEditLength(oldTokens, newTokens,
                        [cleared EXCEPT ![diagonalPath] = NoPath],
                        editLength, diagonalPath + 2,
                        minDiagonalToConsider, maxDiagonalToConsider)
    ELSE
      LET moved == IF ~canRemove \/ (canAdd /\ removePath.oldPos < addPath.oldPos)
                   THEN addToPath(addPath, "add", 0)
                   ELSE addToPath(removePath, "remove", 1)
          basePath == extractCommon(moved, newTokens, oldTokens, diagonalPath)
          newPos == basePath.oldPos - diagonalPath
      IN
      IF basePath.oldPos + 1 >= oldLen /\ newPos + 1 >= newLen
      THEN basePath.comps
      ELSE execEditLength(oldTokens, newTokens,
             [cleared EXCEPT ![diagonalPath] = basePath],
             editLength, diagonalPath + 2,
             IF newPos + 1 >= newLen
               THEN Max(minDiagonalToConsider, diagonalPath + 1)
               ELSE minDiagonalToConsider,
             IF basePath.oldPos + 1 >= oldLen
               THEN Min(maxDiagonalToConsider, diagonalPath - 1)
               ELSE maxDiagonalToConsider)

\* One tag per token: "keep", "remove" or "add"
diffComponents(oldTokens, newTokens) ==
  LET n == Len(oldTokens) + Len(newTokens)
      start == extractCommon([def |-> TRUE, oldPos |-> -1, comps |-> <<>>],
                             newTokens, oldTokens, 0)
      bestPath == [d \in (-(n + 2))..(n + 2) |-> IF d = 0 THEN start ELSE NoPath]
  IN IF start.oldPos + 1 >= Len(oldTokens) /\ start.oldPos + 1 >= Len(newTokens)
     THEN start.comps
     ELSE execEditLength(oldTokens, newTokens, bestPath, 1, -1, -(n + 2), n + 2)

\* Groups the tags into change objects, one per maximal run, each holding
\* the tokens of its run
RECURSIVE buildValues(_, _, _, _, _, _)
buildValues(comps, k, newTokens, oldTokens, newPos, oldPos) ==
  IF k > Len(comps) THEN <<>>
  ELSE
    LET op == comps[k]
        token == IF op = "remove" THEN oldTokens[oldPos + 1] ELSE newTokens[newPos + 1]
        rest == buildValues(comps, k + 1, newTokens, oldTokens,
                            IF op = "remove" THEN newPos ELSE newPos + 1,
                            IF op = "add" THEN oldPos ELSE oldPos + 1)
    IN IF k < Len(comps) /\ comps[k + 1] = op
       THEN << [Head(rest) EXCEPT !.value = << token >> \o @] >> \o Tail(rest)
       ELSE << [value |-> << token >>,
                added |-> (op = "add"),
                removed |-> (op = "remove")] >> \o rest

\* Variant of diffArrays without alignment: everything after the common
\* prefix is removed and added again
diffArrays_noAlignment(oldArr, newArr) ==
  LET n == CommonCount(oldArr, newArr, -1, -1)
      run(value, added, removed) ==
        IF value = <<>> THEN <<>>
        ELSE << [value |-> value, added |-> added, removed |-> removed] >>
  IN run(SubSeq(newArr, 1, n), FALSE, FALSE)
     \o run(SubSeq(oldArr, n + 1, Len(oldArr)), FALSE, TRUE)
     \o run(SubSeq(newArr, n + 1, Len(newArr)), TRUE, FALSE)

\* diff.diffArrays(oldArr, newArr): tokens are the array elements, compared
\* with ===, and no token is dropped
diffArrays(oldArr, newArr) ==
  buildValues(diffComponents(oldArr, newArr), 1, newArr, oldArr, 0, 0)


SPACE == " "

\* Characters matched by \s and removed by String.prototype.trim
WhiteSpace == { SPACE, CR, NL, "\t" }

\* String.prototype.trim
RECURSIVE trimStart(_)
trimStart(str) ==
  IF str # <<>> /\ Head(str) \in WhiteSpace THEN trimStart(Tail(str)) ELSE str

RECURSIVE trimEnd(_)
trimEnd(str) ==
  IF str # <<>> /\ str[Len(str)] \in WhiteSpace
  THEN trimEnd(SubSeq(str, 1, Len(str) - 1))
  ELSE str

trim(str) == trimEnd(trimStart(str))

\* diff.diffWords(oldStr, newStr).  The text is cut into parts: maximal runs
\* of word characters, maximal runs of white space, single other characters
charClass(char) ==
  IF char \in WordChars THEN "word"
  ELSE IF char \in WhiteSpace THEN "space"
  ELSE "other"

RECURSIVE wordParts(_)
wordParts(value) ==
  IF value = <<>> THEN <<>>
  ELSE LET rest == wordParts(Tail(value))
           class == charClass(Head(value))
       IN IF /\ class # "other"
             /\ rest # <<>>
             /\ charClass(Head(Head(rest))) = class
          THEN << << Head(value) >> \o Head(rest) >> \o Tail(rest)
          ELSE << << Head(value) >> >> \o rest

isSpace(part) == part # <<>> /\ Head(part) \in WhiteSpace

\* Each run of white space is attached to the token before it and to the
\* token after it; k is the 1-based position of the part
RECURSIVE attachSpace(_, _, _)
attachSpace(parts, k, tokens) ==
  IF k > Len(parts) THEN tokens
  ELSE
    LET part == parts[k]
        last == Len(tokens)
        appended == [tokens EXCEPT ![last] = @ \o part]
    IN IF isSpace(part)
       THEN attachSpace(parts, k + 1, IF k = 1 THEN Append(tokens, part) ELSE appended)
       ELSE IF k > 1 /\ isSpace(parts[k - 1])
       THEN attachSpace(parts, k + 1,
                        IF tokens[last] = parts[k - 1]
                        THEN appended
                        ELSE Append(tokens, parts[k - 1] \o part))
       ELSE attachSpace(parts, k + 1, Append(tokens, part))

tokenize(value) == attachSpace(wordParts(value), 1, <<>>)

\* The value of a change object: its tokens joined, the white space at the
\* start of every token but the first dropped
wordJoin(tokens) ==
  Flatten([k \in 1..Len(tokens) |-> IF k = 1 THEN tokens[k] ELSE trimStart(tokens[k])])

\* value.match(/^\s*/)[0] and value.match(/\s*$/)[0]
leadingSpace(str) == SubSeq(str, 1, Len(str) - Len(trimStart(str)))

trailingSpace(str) == SubSeq(str, Len(trimEnd(str)) + 1, Len(str))

RECURSIVE longestCommonPrefix(_, _)
longestCommonPrefix(str1, str2) ==
  IF str1 # <<>> /\ str2 # <<>> /\ Head(str1) = Head(str2)
  THEN << Head(str1) >> \o longestCommonPrefix(Tail(str1), Tail(str2))
  ELSE <<>>

RECURSIVE longestCommonSuffix(_, _)
longestCommonSuffix(str1, str2) ==
  IF str1 # <<>> /\ str2 # <<>> /\ str1[Len(str1)] = str2[Len(str2)]
  THEN longestCommonSuffix(SubSeq(str1, 1, Len(str1) - 1), SubSeq(str2, 1, Len(str2) - 1))
       \o << str1[Len(str1)] >>
  ELSE <<>>

replacePrefix(str, oldPrefix, newPrefix) ==
  newPrefix \o SubSeq(str, Len(oldPrefix) + 1, Len(str))

replaceSuffix(str, oldSuffix, newSuffix) ==
  SubSeq(str, 1, Len(str) - Len(oldSuffix)) \o newSuffix

removePrefix(str, oldPrefix) == replacePrefix(str, oldPrefix, <<>>)

removeSuffix(str, oldSuffix) == replaceSuffix(str, oldSuffix, <<>>)

\* The longest end of str1 that is a start of str2
maximumOverlap(str1, str2) ==
  LET fits == { n \in 0..Min(Len(str1), Len(str2)) :
                  SubSeq(str1, Len(str1) - n + 1, Len(str1)) = SubSeq(str2, 1, n) }
  IN SubSeq(str2, 1, CHOOSE n \in fits : \A m \in fits : m <= n)

\* White space that both sides of a change share with the text kept around
\* it is moved out of the change.  The arguments are positions in changes,
\* 0 for null
dedupeWhitespaceInChangeObjects(changes, startKeep, deletion, insertion, endKeep) ==
  IF deletion # 0 /\ insertion # 0
  THEN
    LET oldWsPrefix == leadingSpace(changes[deletion].value)
        oldWsSuffix == trailingSpace(changes[deletion].value)
        newWsPrefix == leadingSpace(changes[insertion].value)
        newWsSuffix == trailingSpace(changes[insertion].value)
        commonWsPrefix == longestCommonPrefix(oldWsPrefix, newWsPrefix)
        commonWsSuffix == longestCommonSuffix(oldWsSuffix, newWsSuffix)
        afterStart ==
          IF startKeep # 0
          THEN [changes EXCEPT
                  ![startKeep].value = replaceSuffix(@, newWsPrefix, commonWsPrefix),
                  ![deletion].value = removePrefix(@, commonWsPrefix),
                  ![insertion].value = removePrefix(@, commonWsPrefix)]
          ELSE changes
    IN IF endKeep # 0
       THEN [afterStart EXCEPT
               ![endKeep].value = replacePrefix(@, newWsSuffix, commonWsSuffix),
               ![deletion].value = removeSuffix(@, commonWsSuffix),
               ![insertion].value = removeSuffix(@, commonWsSuffix)]
       ELSE afterStart
  ELSE IF insertion # 0
  THEN
    LET afterStart ==
          IF startKeep # 0
          THEN [changes EXCEPT ![insertion].value = trimStart(@)]
          ELSE changes
    IN IF endKeep # 0
       THEN [afterStart EXCEPT ![endKeep].value = trimStart(@)]
       ELSE afterStart
  ELSE IF startKeep # 0 /\ endKeep # 0
  THEN
    LET newWsFull == leadingSpace(changes[endKeep].value)
        delWsStart == leadingSpace(changes[deletion].value)
        delWsEnd == trailingSpace(changes[deletion].value)
        newWsStart == longestCommonPrefix(newWsFull, delWsStart)
        newWsEnd == longestCommonSuffix(removePrefix(newWsFull, newWsStart), delWsEnd)
    IN [changes EXCEPT
          ![deletion].value = removeSuffix(removePrefix(@, newWsStart), newWsEnd),
          ![endKeep].value = replacePrefix(@, newWsFull, newWsEnd),
          ![startKeep].value =
             replaceSuffix(@, newWsFull,
                           SubSeq(newWsFull, 1, Len(newWsFull) - Len(newWsEnd)))]
  ELSE IF endKeep # 0
  THEN
    LET overlap == maximumOverlap(trailingSpace(changes[deletion].value),
                                  leadingSpace(changes[endKeep].value))
    IN [changes EXCEPT ![deletion].value = removeSuffix(@, overlap)]
  ELSE IF startKeep # 0
  THEN
    LET overlap == maximumOverlap(trailingSpace(changes[startKeep].value),
                                  leadingSpace(changes[deletion].value))
    IN [changes EXCEPT ![deletion].value = removePrefix(@, overlap)]
  ELSE changes

\* The pass over the change objects after the alignment; k is the 1-based
\* position of the change
RECURSIVE postProcess(_, _, _, _, _)
postProcess(changes, k, lastKeep, insertion, deletion) ==
  IF k > Len(changes)
  THEN IF insertion # 0 \/ deletion # 0
       THEN dedupeWhitespaceInChangeObjects(changes, lastKeep, deletion, insertion, 0)
       ELSE changes
  ELSE IF changes[k].added THEN postProcess(changes, k + 1, lastKeep, k, deletion)
  ELSE IF changes[k].removed THEN postProcess(changes, k + 1, lastKeep, insertion, k)
  ELSE postProcess(IF insertion # 0 \/ deletion # 0
                   THEN dedupeWhitespaceInChangeObjects(changes, lastKeep, deletion,
                                                        insertion, k)
                   ELSE changes,
                   k + 1, k, 0, 0)

\* Tokens are equal when they are equal without the white space at their
\* ends; the tokens of a kept run are those of the new text
diffWords(oldStr, newStr) ==
  LET oldTokens == tokenize(oldStr)
      newTokens == tokenize(newStr)
      components == diffComponents([k \in 1..Len(oldTokens) |-> trim(oldTokens[k])],
                                   [k \in 1..Len(newTokens) |-> trim(newTokens[k])])
      changes == buildValues(components, 1, newTokens, oldTokens, 0, 0)
  IN postProcess([k \in 1..Len(changes) |-> [changes[k] EXCEPT !.value = wordJoin(@)]],
                 1, 0, 0, 0)

\* ------------------------------------------------------------------------
\* Text diff pipeline
\* ------------------------------------------------------------------------
\* Variant of parseTextToLines: empty lines are filtered out
NonEmpty(line) == line # <<>>

parseTextToLines_skipEmpty(text) == SelectSeq(Split(text, NL), NonEmpty)

parseTextToLines(text) == Split(text, NL)

computeWordChanges(before, after) == diffWords(before, after)

\* The local variables of createDiffLines: diffLines, the two counters and
\* the loop index i (0-based)
loopStart ==
  [diffLines |-> <<>>, beforeLineNumber |-> 1, afterLineNumber |-> 1, i |-> 0]

\* Variant of pairLoop: the word diff is computed with its arguments swapped
RECURSIVE pairLoop_swapped(_, _, _, _)
pairLoop_swapped(st, removedLines, addedLines, j) ==
  IF j >= Max(Len(removedLines), Len(addedLines)) THEN st
  ELSE
    LET beforeLine == IF j < Len(removedLines) THEN removedLines[j + 1] ELSE <<>>
        afterLine == IF j < Len(addedLines) THEN addedLines[j + 1] ELSE <<>>
        wordChanges == computeWordChanges(afterLine, beforeLine)
        s1 == IF beforeLine # <<>>
              THEN [st EXCEPT
                      !.diffLines = Append(@, [type |-> "removed",
                                               content |-> beforeLine,
                                               beforeLineNumber |-> st.beforeLineNumber,
                                               wordChanges |-> wordChanges]),
                      !.beforeLineNumber = @ + 1]
              ELSE st
        s2 == IF afterLine # <<>>
              THEN [s1 EXCEPT
                      !.diffLines = Append(@, [type |-> "added",
                                               content |-> afterLine,
                                               afterLineNumber |-> s1.afterLineNumber,
                                               wordChanges |-> wordChanges]),
                      !.afterLineNumber = @ + 1]
              ELSE s1
    IN pairLoop_swapped(s2, removedLines, addedLines, j + 1)

\* One pass of the pairing loop "for (let j = 0; j < maxPairs; j++)"
RECURSIVE pairLoop(_, _, _, _)
pairLoop(st, removedLines, addedLines, j) ==
  IF j >= Max(Len(removedLines), Len(addedLines)) THEN st
  ELSE
    LET beforeLine == IF j < Len(removedLines) THEN removedLines[j + 1] ELSE <<>>
        afterLine == IF j < Len(addedLines) THEN addedLines[j + 1] ELSE <<>>
        wordChanges == computeWordChanges(beforeLine, afterLine)
        s1 == IF beforeLine # <<>>
              THEN [st EXCEPT
                      !.diffLines = Append(@, [type |-> "removed",
                                               content |-> beforeLine,
                                               beforeLineNumber |-> st.beforeLineNumber,
                                               wordChanges |-> wordChanges]),
                      !.beforeLineNumber = @ + 1]
              ELSE st
        s2 == IF afterLine # <<>>
              THEN [s1 EXCEPT
                      !.diffLines = Append(@, [type |-> "added",
                                               content |-> afterLine,
                                               afterLineNumber |-> s1.afterLineNumber,
                                               wordChanges |-> wordChanges]),
                      !.afterLineNumber = @ + 1]
              ELSE s1
    IN pairLoop(s2, removedLines, addedLines, j + 1)

\* Branch "change.removed && nextChange && nextChange.added"
modification(st, change, nextChange) ==
  [pairLoop(st, change.value, nextChange.value, 0) EXCEPT !.i = @ + 2]

\* Variant of pureRemoval: the counter is read but not incremented
RECURSIVE pureRemoval_noIncrement(_, _)
pureRemoval_noIncrement(st, lines) ==
  IF lines = <<>> THEN [st EXCEPT !.i = @ + 1]
  ELSE pureRemoval_noIncrement(
         [st EXCEPT
            !.diffLines = Append(@, [type |-> "removed",
                                     content |-> Head(lines),
                                     beforeLineNumber |-> st.beforeLineNumber])],
         Tail(lines))

\* Branch "else if (change.removed)"
RECURSIVE pureRemoval(_, _)
pureRemoval(st, lines) ==
  IF lines = <<>> THEN [st EXCEPT !.i = @ + 1]
  ELSE pureRemoval([st EXCEPT
                      !.diffLines = Append(@, [type |-> "removed",
                                               content |-> Head(lines),
                                               beforeLineNumber |-> st.beforeLineNumber]),
                      !.beforeLineNumber = @ + 1],
                   Tail(lines))

\* Variant of pureAddition: the number is stored in the before field
RECURSIVE pureAddition_beforeField(_, _)
pureAddition_beforeField(st, lines) ==
  IF lines = <<>> THEN [st EXCEPT !.i = @ + 1]
  ELSE pureAddition_beforeField(
         [st EXCEPT
            !.diffLines = Append(@, [type |-> "added",
                                     content |-> Head(lines),
                                     beforeLineNumber |-> st.afterLineNumber]),
            !.afterLineNumber = @ + 1],
         Tail(lines))

\* Branch "else if (change.added)"
RECURSIVE pureAddition(_, _)
pureAddition(st, lines) ==
  IF lines = <<>> THEN [st EXCEPT !.i = @ + 1]
  ELSE pureAddition([st EXCEPT
                       !.diffLines = Append(@, [type |-> "added",
                                                content |-> Head(lines),
                                                afterLineNumber |-> st.afterLineNumber]),
                       !.afterLineNumber = @ + 1],
                    Tail(lines))

\* Variant of unchangedRun: hidden lines do not advance the counters
RECURSIVE unchangedRun_noAdvance(_, _, _)
unchangedRun_noAdvance(st, lines, cfg) ==
  IF lines = <<>> THEN [st EXCEPT !.i = @ + 1]
  ELSE unchangedRun_noAdvance(
         IF ~cfg.hideUnchangedRows
         THEN [st EXCEPT
                 !.diffLines = Append(@, [type |-> "unchanged",
                                          content |-> Head(lines),
                                          beforeLineNumber |-> st.beforeLineNumber,
                                          afterLineNumber |-> st.afterLineNumber]),
                 !.beforeLineNumber = @ + 1,
                 !.afterLineNumber = @ + 1]
         ELSE st,
         Tail(lines), cfg)

\* Branch "else" (the run is unchanged)
RECURSIVE unchangedRun(_, _, _)
unchangedRun(st, lines, cfg) ==
  IF lines = <<>> THEN [st EXCEPT !.i = @ + 1]
  ELSE unchangedRun(
         IF ~cfg.hideUnchangedRows
         THEN [st EXCEPT
                 !.diffLines = Append(@, [type |-> "unchanged",
                                          content |-> Head(lines),
                                          beforeLineNumber |-> st.beforeLineNumber,
                                          afterLineNumber |-> st.afterLineNumber]),
                 !.beforeLineNumber = @ + 1,
                 !.afterLineNumber = @ + 1]
         ELSE [st EXCEPT !.beforeLineNumber = @ + 1, !.afterLineNumber = @ + 1],
         Tail(lines), cfg)

\* Which branch the loop body takes for changes[i]
isModification(chs, i) ==
  /\ chs[i + 1].removed
  /\ i + 2 <= Len(chs)
  /\ chs[i + 2].added

isPureRemoval(chs, i) == ~isModification(chs, i) /\ chs[i + 1].removed

isPureAddition(chs, i) ==
  ~isModification(chs, i) /\ ~chs[i + 1].removed /\ chs[i + 1].added

isUnchanged(chs, i) == ~chs[i + 1].removed /\ ~chs[i + 1].added

\* The body of "for (let i = 0; i < changes.length; i++)"
loopBody(st, chs, cfg) ==
  IF isModification(chs, st.i) THEN modification(st, chs[st.i + 1], chs[st.i + 2])
  ELSE IF isPureRemoval(chs, st.i) THEN pureRemoval(st, chs[st.i + 1].value)
  ELSE IF isPureAddition(chs, st.i) THEN pureAddition(st, chs[st.i + 1].value)
  ELSE unchangedRun(st, chs[st.i + 1].value, cfg)

RECURSIVE runLoop(_, _, _)
runLoop(st, chs, cfg) ==
  IF st.i >= Len(chs) THEN st.diffLines
  ELSE runLoop(loopBody(st, chs, cfg), chs, cfg)

createDiffLines(bLines, aLines, cfg) ==
  runLoop(loopStart, diffArrays(bLines, aLines), cfg)

computeTextDiff(bText, aText, cfg) ==
  createDiffLines(parseTextToLines(bText), parseTextToLines(aText), cfg)

\* ------------------------------------------------------------------------
\* CSV diff pipeline
\* ------------------------------------------------------------------------
\* Variant of the loop of parseCsvLine in which a comma separates fields
\* inside quotes too
RECURSIVE parseCsvLoop_splitsInQuotes(_, _, _, _, _)
parseCsvLoop_splitsInQuotes(line, k, current, inQuotes, result) ==
  IF k >= Len(line) THEN Append(result, current)
  ELSE
    LET char == line[k + 1] IN
    IF char = QUOTE
    THEN IF inQuotes /\ k + 1 < Len(line) /\ line[k + 2] = QUOTE
         THEN parseCsvLoop_splitsInQuotes(line, k + 2, Append(current, QUOTE), inQuotes, result)
         ELSE parseCsvLoop_splitsInQuotes(line, k + 1, current, ~inQuotes, result)
    ELSE IF char = COMMA
    THEN parseCsvLoop_splitsInQuotes(line, k + 1, <<>>, inQuotes, Append(result, current))
    ELSE parseCsvLoop_splitsInQuotes(line, k + 1, Append(current, char), inQuotes, result)

\* The while loop of parseCsvLine; i is 0-based
RECURSIVE parseCsvLoop(_, _, _, _, _)
parseCsvLoop(line, k, current, inQuotes, result) ==
  IF k >= Len(line) THEN Append(result, current)
  ELSE
    LET char == line[k + 1] IN
    IF char = QUOTE
    THEN IF inQuotes /\ k + 1 < Len(line) /\ line[k + 2] = QUOTE
         THEN parseCsvLoop(line, k + 2, Append(current, QUOTE), inQuotes, result)
         ELSE parseCsvLoop(line, k + 1, current, ~inQuotes, result)
    ELSE IF char = COMMA /\ ~inQuotes
    THEN parseCsvLoop(line, k + 1, <<>>, inQuotes, Append(result, current))
    ELSE parseCsvLoop(line, k + 1, Append(current, char), inQuotes, result)

parseCsvLine(line) ==
  LET stripped == IF line # <<>> /\ line[Len(line)] = CR
                  THEN SubSeq(line, 1, Len(line) - 1)
                  ELSE line
  IN parseCsvLoop(stripped, 0, <<>>, FALSE, <<>>)

Includes(str, char) == \E k \in 1..Len(str) : str[k] = char

stripCsvFormattingQuotes(field) ==
  IF field # <<>> /\ field[1] = QUOTE /\ field[Len(field)] = QUOTE
  THEN LET inner == SubSeq(field, 2, Len(field) - 1)
       IN IF ~Includes(inner, COMMA) /\ ~Includes(inner, NL) /\ ~Includes(inner, QUOTE)
          THEN inner
          ELSE field
  ELSE field

computeCellWordChanges(beforeCell, afterCell) == diffWords(beforeCell, afterCell)

\* Variant of cellAt in which a missing cell repeats the last cell of the row
cellAt_lastCell(row, j) ==
  IF j < Len(row) THEN row[j + 1]
  ELSE IF row = <<>> THEN <<>> ELSE row[Len(row)]

\* "row[j] || ''" with j 0-based
cellAt(row, j) == IF j < Len(row) THEN row[j + 1] ELSE <<>>

\* The DiffCell pushed by the body of the loop of createDiffCells
diffCell(bRow, aRow, j) ==
  LET beforeCell == cellAt(bRow, j)
      afterCell == cellAt(aRow, j)
      hasChange == beforeCell # afterCell
  IN [before |-> stripCsvFormattingQuotes(beforeCell),
      after |-> stripCsvFormattingQuotes(afterCell),
      hasChange |-> hasChange,
      wordChanges |-> IF hasChange
                      THEN computeCellWordChanges(beforeCell, afterCell)
                      ELSE <<>>]

createDiffCells(bRow, aRow) ==
  [k \in 1..Max(Len(bRow), Len(aRow)) |-> diffCell(bRow, aRow, k - 1)]

\* ------------------------------------------------------------------------
\* Table diffing
\* ------------------------------------------------------------------------
parseCsvToRows(text) ==
  LET lines == Split(text, NL)
  IN [k \in 1..Len(lines) |-> parseCsvLine(lines[k])]

\* "rows[i] || []" with i 0-based
rowAt(rows, idx) == IF idx < Len(rows) THEN rows[idx + 1] ELSE <<>>

\* Variant of someCellChanged that looks at the first cell only
someCellChanged_firstCell(cells) == cells # <<>> /\ cells[1].hasChange

\* "cells.some((cell) => cell.hasChange)"
someCellChanged(cells) == \E k \in 1..Len(cells) : cells[k].hasChange

\* The "continue" of the loop of createDiffRowsWithOffset
skipsRow(bRows, aRows, idx) ==
  Len(rowAt(bRows, idx)) = 0 /\ Len(rowAt(aRows, idx)) = 0

\* Variant of diffRow that numbers a row by its place among the rows shown
diffRow_renumbered(bRows, aRows, idx, rowOffset, shown) ==
  LET cells == createDiffCells(rowAt(bRows, idx), rowAt(aRows, idx))
  IN [rowNumber |-> shown + 1 + rowOffset,
      cells |-> cells,
      hasChanges |-> someCellChanged(cells)]

\* The DiffRow built at loop index idx; shown is diffRows.length
diffRow(bRows, aRows, idx, rowOffset, shown) ==
  LET cells == createDiffCells(rowAt(bRows, idx), rowAt(aRows, idx))
  IN [rowNumber |-> idx + 1 + rowOffset,
      cells |-> cells,
      hasChanges |-> someCellChanged(cells)]

\* "!config.hideUnchangedRows || hasChanges"
pushesRow(row, cfg) == ~cfg.hideUnchangedRows \/ row.hasChanges

RECURSIVE diffRowsLoop(_, _, _, _, _, _)
diffRowsLoop(bRows, aRows, cfg, rowOffset, idx, rows) ==
  IF idx >= Max(Len(bRows), Len(aRows)) THEN rows
  ELSE IF skipsRow(bRows, aRows, idx)
  THEN diffRowsLoop(bRows, aRows, cfg, rowOffset, idx + 1, rows)
  ELSE LET row == diffRow(bRows, aRows, idx, rowOffset, Len(rows))
       IN diffRowsLoop(bRows, aRows, cfg, rowOffset, idx + 1,
                       IF pushesRow(row, cfg) THEN Append(rows, row) ELSE rows)

createDiffRowsWithOffset(bRows, aRows, cfg, rowOffset) ==
  diffRowsLoop(bRows, aRows, cfg, rowOffset, 0, <<>>)

createDiffRows(bRows, aRows, cfg) == createDiffRowsWithOffset(bRows, aRows, cfg, 0)

\* Variant of detectChangedColumns that looks at the first row only
detectChangedColumns_firstRow(rows) ==
  IF rows = <<>> THEN {}
  ELSE { c \in 0..(Len(rows[1].cells) - 1) : rows[1].cells[c + 1].hasChange }

\* Column indices are 0-based
detectChangedColumns(rows) ==
  UNION { { c \in 0..(Len(rows[r].cells) - 1) : rows[r].cells[c + 1].hasChange }
          : r \in 1..Len(rows) }

extractCsvHeaders(bRows, aRows) ==
  LET headerSource == IF Len(aRows) > 0 THEN aRows[1] ELSE rowAt(bRows, 0)
  IN [k \in 1..Len(headerSource) |-> stripCsvFormattingQuotes(headerSource[k])]

BEFORE_SUFFIX == << " ", "B", "e", "f", "o", "r", "e" >>

AFTER_SUFFIX == << " ", "A", "f", "t", "e", "r" >>

COLUMN_PREFIX == << "C", "o", "l", "u", "m", "n", " " >>

\* Variant of expandedHeader that puts the after label first
expandedHeader_afterFirst(label) ==
  << label \o AFTER_SUFFIX, label \o BEFORE_SUFFIX >>

\* The two entries pushed for a changed column
expandedHeader(label) ==
  << label \o BEFORE_SUFFIX, label \o AFTER_SUFFIX >>

\* Variant of generateCSVHeadersWithBeforeAfter that does not trim the label
RECURSIVE generateCSVHeadersWithBeforeAfter_noTrim(_, _)
generateCSVHeadersWithBeforeAfter_noTrim(actualHeaders, changedColumns) ==
  IF actualHeaders = <<>> THEN <<>>
  ELSE LET c == Len(actualHeaders) - 1
           label == actualHeaders[c + 1]
       IN generateCSVHeadersWithBeforeAfter_noTrim(SubSeq(actualHeaders, 1, c), changedColumns)
          \o (IF c \in changedColumns
              THEN expandedHeader(label)
              ELSE << label >>)

RECURSIVE generateCSVHeadersWithBeforeAfter(_, _)
generateCSVHeadersWithBeforeAfter(actualHeaders, changedColumns) ==
  IF actualHeaders = <<>> THEN <<>>
  ELSE LET c == Len(actualHeaders) - 1
           label == actualHeaders[c + 1]
       IN generateCSVHeadersWithBeforeAfter(SubSeq(actualHeaders, 1, c), changedColumns)
          \o (IF c \in changedColumns
              THEN expandedHeader(trim(label))
              ELSE << label >>)

\* Number in a template literal: its decimal digits
DecimalDigits == << "0", "1", "2", "3", "4", "5", "6", "7", "8", "9" >>

RECURSIVE numberToString(_)
numberToString(n) ==
  IF n < 10 THEN << DecimalDigits[n + 1] >>
  ELSE numberToString(n \div 10) \o << DecimalDigits[(n % 10) + 1] >>

\* Variant of columnLabel with 0-based column numbers
columnLabel_zeroBased(c) == COLUMN_PREFIX \o numberToString(c)

\* "Column ${j + 1}" for the 0-based column c
columnLabel(c) == COLUMN_PREFIX \o numberToString(c + 1)

RECURSIVE generateCsvHeaders(_, _, _)
generateCsvHeaders(maxCols, changedColumns, cfg) ==
  IF maxCols <= 0 THEN <<>>
  ELSE LET c == maxCols - 1
       IN generateCsvHeaders(c, changedColumns, cfg)
          \o (IF cfg.beforeAfterColumn /\ c \in changedColumns
              THEN expandedHeader(columnLabel(c))
              ELSE << columnLabel(c) >>)

\* Math.max over the lengths of the rows of both data sets; both data sets
\* of createCsvDiffTable hold at least one row
maxColsOf(bRows, aRows) ==
  LET lens == { Len(bRows[k]) : k \in 1..Len(bRows) } \cup { Len(aRows[k]) : k \in 1..Len(aRows) }
  IN IF lens = {} THEN 0 ELSE CHOOSE m \in lens : \A n \in lens : n <= m

\* Variant of dataRowsOf that leaves the header row in the data set
dataRowsOf_keepsHeader(rows, cfg) == rows

\* The data set of one side, given that both sides hold at least one row
dataRowsOf(rows, cfg) ==
  IF cfg.firstRowIsHeader /\ Len(rows) > 1 THEN Tail(rows) ELSE rows

\* "config.firstRowIsHeader && beforeRows.length > 0 && afterRows.length > 0"
extractsHeader(bRows, aRows, cfg) ==
  cfg.firstRowIsHeader /\ Len(bRows) > 0 /\ Len(aRows) > 0

\* "config.firstRowIsHeader ? 1 : 0"
rowOffsetOf(cfg) == IF cfg.firstRowIsHeader THEN 1 ELSE 0

\* "config.beforeAfterColumn ? detectChangedColumns(diffRows) : new Set()"
tableChangedColumns(rows, cfg) ==
  IF cfg.beforeAfterColumn THEN detectChangedColumns(rows) ELSE {}

\* The headers of the table
tableHeaders(actualHeaders, dataB, dataA, changedColumns, cfg) ==
  IF ~cfg.firstRowIsHeader
  THEN generateCsvHeaders(maxColsOf(dataB, dataA),
                          IF cfg.beforeAfterColumn THEN changedColumns ELSE {}, cfg)
  ELSE IF cfg.beforeAfterColumn
       THEN generateCSVHeadersWithBeforeAfter(actualHeaders, changedColumns)
       ELSE actualHeaders

createCsvDiffTable(bText, aText, cfg) ==
  LET bRows == parseCsvToRows(bText)
      aRows == parseCsvToRows(aText)
      extracts == extractsHeader(bRows, aRows, cfg)
      actualHeaders == IF extracts THEN extractCsvHeaders(bRows, aRows) ELSE <<>>
      dataB == IF extracts THEN dataRowsOf(bRows, cfg) ELSE bRows
      dataA == IF extracts THEN dataRowsOf(aRows, cfg) ELSE aRows
      rows == createDiffRowsWithOffset(dataB, dataA, cfg, rowOffsetOf(cfg))
  IN [headers |-> tableHeaders(actualHeaders, dataB, dataA,
                              tableChangedColumns(rows, cfg), cfg),
      rows |-> rows]

\* Variant of doubleQuotes that leaves the quotes of the field as they are
doubleQuotes_single(field) == field

\* String.prototype.replaceAll('"', '""')
RECURSIVE doubleQuotes(_)
doubleQuotes(field) ==
  IF field = <<>> THEN <<>>
  ELSE (IF Head(field) = QUOTE THEN << QUOTE, QUOTE >> ELSE << Head(field) >>)
       \o doubleQuotes(Tail(field))

\* Variant of encodeCSVField that does not escape the quotes of the field
encodeCSVField_unescaped(field) == << QUOTE >> \o field \o << QUOTE >>

encodeCSVField(field) == << QUOTE >> \o doubleQuotes(field) \o << QUOTE >>

\* Variant of exportCell that shows both values only for a cell that changed
exportCell_onlyChangedCells(cell, c, changedColumns, cfg) ==
  IF cfg.beforeAfterColumn /\ cell.hasChange
  THEN << encodeCSVField(cell.before), encodeCSVField(cell.after) >>
  ELSE << encodeCSVField(cell.after) >>

\* The fields pushed to rowData for one cell; c is the 0-based cellIndex
exportCell(cell, c, changedColumns, cfg) ==
  IF cfg.beforeAfterColumn /\ c \in changedColumns
  THEN << encodeCSVField(cell.before), encodeCSVField(cell.after) >>
  ELSE << encodeCSVField(cell.after) >>

\* rowData of one row
exportRowData(row, changedColumns, cfg) ==
  Flatten([k \in 1..Len(row.cells) |-> exportCell(row.cells[k], k - 1, changedColumns, cfg)])

\* The line pushed for the headers, if any
exportHeaderLines(headers) ==
  IF Len(headers) > 0
  THEN << Join([k \in 1..Len(headers) |-> encodeCSVField(headers[k])], COMMA) >>
  ELSE <<>>

\* "config.beforeAfterColumn ? detectChangedColumns(diffTable.rows) : new Set()"
exportChangedColumns(rows, cfg) ==
  IF cfg.beforeAfterColumn THEN detectChangedColumns(rows) ELSE {}

exportDiffTableToCsv(diffTable, cfg) ==
  LET changedColumns == exportChangedColumns(diffTable.rows, cfg)
      rowLines == [k \in 1..Len(diffTable.rows) |->
                     Join(exportRowData(diffTable.rows[k], changedColumns, cfg), COMMA)]
  IN Join(exportHeaderLines(diffTable.headers) \o rowLines, NL)

\* ------------------------------------------------------------------------
\* State
\* ------------------------------------------------------------------------
VARIABLES
  pc,               \* "idle", "loop" (inside createDiffLines), "done"
  call,             \* the entry point that was called
  config,           \* the DiffConfig of the call
  beforeText, afterText,     \* arguments of computeTextDiff
  beforeLines, afterLines,   \* arguments of createDiffLines
  changes,          \* result of diff.diffArrays
  i, beforeLineNumber, afterLineNumber, diffLines,  \* locals of createDiffLines
  beforeCsvLine, afterCsvLine,   \* arguments of parseCsvLine
  beforeRow, afterRow,           \* arguments of createDiffCells
  j, diffCells,                  \* locals of createDiffCells
  csvConfig,                     \* the DiffConfig of the table call
  csvBeforeText, csvAfterText,   \* arguments of createCsvDiffTable
  beforeRows, afterRows,         \* parsed rows, or arguments of createDiffRows
  dataBeforeRows, dataAfterRows, actualHeaders,  \* locals of createCsvDiffTable
  rowOffset, rowIndex, diffRows, \* argument and locals of createDiffRowsWithOffset
  changedColumns, headers,       \* local and result of createCsvDiffTable
  exportColumns,                 \* changedColumns of exportDiffTableToCsv
  exportIndex, exportLines,      \* locals of exportDiffTableToCsv (lines)
  exported,                      \* result of exportDiffTableToCsv
  fnArgs, fnResult               \* arguments and result of a single function call

textVars == << config, beforeText, afterText, beforeLines, afterLines,
               changes, i, beforeLineNumber, afterLineNumber, diffLines >>

csvVars == << beforeCsvLine, afterCsvLine, beforeRow, afterRow, j, diffCells >>

tableVars == << csvConfig, csvBeforeText, csvAfterText, beforeRows, afterRows,
                dataBeforeRows, dataAfterRows, actualHeaders, rowOffset,
                rowIndex, diffRows, changedColumns, headers, exportColumns,
                exportIndex, exportLines, exported >>

fnVars == << fnArgs, fnResult >>

vars == << pc, call, textVars, csvVars, tableVars, fnVars >>

\* ------------------------------------------------------------------------
\* Inputs
\* ------------------------------------------------------------------------
LineArrays == SeqsUpTo(LineValues, MaxLines)

Texts == { Join(ls, NL) : ls \in LineArrays \ { <<>> } }

TextConfigs ==
  [mode : {"text"}, hideUnchangedRows : BOOLEAN,
   beforeAfterColumn : {FALSE}, firstRowIsHeader : BOOLEAN]

NoConfig ==
  [mode |-> "text", hideUnchangedRows |-> FALSE,
   beforeAfterColumn |-> FALSE, firstRowIsHeader |-> FALSE]

\* ------------------------------------------------------------------------
\* Text pipeline as a state machine
\* ------------------------------------------------------------------------
Init ==
  /\ pc = "idle"
  /\ call = "none"
  /\ config = NoConfig
  /\ beforeText = <<>>
  /\ afterText = <<>>
  /\ beforeLines = <<>>
  /\ afterLines = <<>>
  /\ changes = <<>>
  /\ i = 0
  /\ beforeLineNumber = 1
  /\ afterLineNumber = 1
  /\ diffLines = <<>>
  /\ beforeCsvLine = <<>>
  /\ afterCsvLine = <<>>
  /\ beforeRow = <<>>
  /\ afterRow = <<>>
  /\ j = 0
  /\ diffCells = <<>>
  /\ csvConfig = NoConfig
  /\ csvBeforeText = <<>>
  /\ csvAfterText = <<>>
  /\ beforeRows = <<>>
  /\ afterRows = <<>>
  /\ dataBeforeRows = <<>>
  /\ dataAfterRows = <<>>
  /\ actualHeaders = <<>>
  /\ rowOffset = 0
  /\ rowIndex = 0
  /\ diffRows = <<>>
  /\ changedColumns = {}
  /\ headers = <<>>
  /\ exportColumns = {}
  /\ exportIndex = 0
  /\ exportLines = <<>>
  /\ exported = <<>>
  /\ fnArgs = <<>>
  /\ fnResult = <<>>

\* Entry of createDiffLines up to the loop: diffArrays and the counters
enterCreateDiffLines(bLines, aLines, cfg) ==
  /\ beforeLines' = bLines
  /\ afterLines' = aLines
  /\ config' = cfg
  /\ changes' = diffArrays(bLines, aLines)
  /\ i' = loopStart.i
  /\ beforeLineNumber' = loopStart.beforeLineNumber
  /\ afterLineNumber' = loopStart.afterLineNumber
  /\ diffLines' = loopStart.diffLines
  /\ pc' = "loop"

CallCreateDiffLines ==
  /\ pc = "idle"
  /\ \E bLines \in LineArrays, aLines \in LineArrays, cfg \in TextConfigs :
       enterCreateDiffLines(bLines, aLines, cfg)
  /\ call' = "createDiffLines"
  /\ UNCHANGED << fnVars, beforeText, afterText, csvVars, tableVars >>

CallComputeTextDiff ==
  /\ pc = "idle"
  /\ \E bText \in Texts, aText \in Texts, cfg \in TextConfigs :
       /\ beforeText' = bText
       /\ afterText' = aText
       /\ enterCreateDiffLines(parseTextToLines(bText), parseTextToLines(aText), cfg)
  /\ call' = "computeTextDiff"
  /\ UNCHANGED << fnVars, csvVars, tableVars >>

locals ==
  [diffLines |-> diffLines, beforeLineNumber |-> beforeLineNumber,
   afterLineNumber |-> afterLineNumber, i |-> i]

setLocals(st) ==
  /\ diffLines' = st.diffLines
  /\ beforeLineNumber' = st.beforeLineNumber
  /\ afterLineNumber' = st.afterLineNumber
  /\ i' = st.i
  /\ UNCHANGED << fnVars, pc, call, config, beforeText, afterText, beforeLines,
                  afterLines, changes, csvVars, tableVars >>

inLoop == pc = "loop" /\ i < Len(changes)

Modification ==
  /\ inLoop
  /\ isModification(changes, i)
  /\ setLocals(modification(locals, changes[i + 1], changes[i + 2]))

PureRemoval ==
  /\ inLoop
  /\ isPureRemoval(changes, i)
  /\ setLocals(pureRemoval(locals, changes[i + 1].value))

PureAddition ==
  /\ inLoop
  /\ isPureAddition(changes, i)
  /\ setLocals(pureAddition(locals, changes[i + 1].value))

Unchanged ==
  /\ inLoop
  /\ isUnchanged(changes, i)
  /\ setLocals(unchangedRun(locals, changes[i + 1].value, config))

Return ==
  /\ pc = "loop"
  /\ i >= Len(changes)
  /\ pc' = "done"
  /\ UNCHANGED << fnVars, call, textVars, csvVars, tableVars >>

Next ==
  \/ CallCreateDiffLines
  \/ CallComputeTextDiff
  \/ Modification
  \/ PureRemoval
  \/ PureAddition
  \/ Unchanged
  \/ Return

Spec == Init /\ [][Next]_vars

\* ------------------------------------------------------------------------
\* Cell diffing as a state machine: two CSV lines are parsed into rows and
\* createDiffCells walks their cells
\* ------------------------------------------------------------------------
CsvLines == { Join(fs, COMMA) : fs \in SeqsUpTo(FieldTexts, MaxCells) \ { <<>> } }

CallCreateDiffCells ==
  /\ pc = "idle"
  /\ \E bLine \in CsvLines, aLine \in CsvLines :
       /\ beforeCsvLine' = bLine
       /\ afterCsvLine' = aLine
       /\ beforeRow' = parseCsvLine(bLine)
       /\ afterRow' = parseCsvLine(aLine)
  /\ j' = 0
  /\ diffCells' = <<>>
  /\ pc' = "cells"
  /\ call' = "createDiffCells"
  /\ UNCHANGED << fnVars, textVars, tableVars >>

PushDiffCell ==
  /\ pc = "cells"
  /\ j < Max(Len(beforeRow), Len(afterRow))
  /\ diffCells' = Append(diffCells, diffCell(beforeRow, afterRow, j))
  /\ j' = j + 1
  /\ UNCHANGED << fnVars, pc, call, textVars, tableVars,
                  beforeCsvLine, afterCsvLine, beforeRow, afterRow >>

ReturnDiffCells ==
  /\ pc = "cells"
  /\ j >= Max(Len(beforeRow), Len(afterRow))
  /\ pc' = "cellsDone"
  /\ UNCHANGED << fnVars, call, textVars, csvVars, tableVars >>

NextCells ==
  \/ CallCreateDiffCells
  \/ PushDiffCell
  \/ ReturnDiffCells

SpecCells == Init /\ [][NextCells]_vars

\* ------------------------------------------------------------------------
\* Table diffing and export as a state machine: createCsvDiffTable parses
\* both texts, walks the data rows and builds the headers; the table is
\* then exported with the same config.  createDiffRows is also an entry
\* point of its own.
\* ------------------------------------------------------------------------
MaxRows == 2

\* Source lines of data rows: two cells, one cell, a cell holding a quote
\* and a comma
PlainRows ==
  { << "a", COMMA, "b" >>,
    << "b" >>,
    << "a", COMMA, QUOTE, "a", QUOTE, QUOTE, COMMA, "b", QUOTE >> }

\* Source lines used as the first row of both texts: the labels Name and
\* Value, and a label with white space around it
HeaderRows ==
  { << "N", "a", "m", "e", COMMA, "V", "a", "l", "u", "e" >>,
    << SPACE, "a", SPACE, COMMA, "b" >> }

\* Data rows under the rows of HeaderRows
BodyRows == { << "a", COMMA, "b" >>, << "a", COMMA, "a" >>, << "b", COMMA, "b" >> }

PlainTexts == { Join(rs, NL) : rs \in SeqsUpTo(PlainRows, MaxRows) \ { <<>> } }

HeadedTexts(h) ==
  { Join(<< h >> \o rs, NL) : rs \in SeqsUpTo(BodyRows, MaxRows - 1) \ { <<>> } }

\* Pairs (before text, after text)
TextPairs ==
  (PlainTexts \X PlainTexts)
  \cup UNION { HeadedTexts(h) \X HeadedTexts(h) : h \in HeaderRows }

CsvConfigs ==
  [mode : {"csv"}, hideUnchangedRows : BOOLEAN,
   beforeAfterColumn : BOOLEAN, firstRowIsHeader : BOOLEAN]

\* Arguments of createDiffRows: arrays of rows, a row may have no cell
RowValues == { <<>>, << <<"a">> >>, << <<"a">>, <<"b">> >> }

RowArrays == SeqsUpTo(RowValues, MaxRows)

enterRowLoop(bRows, aRows, offset) ==
  /\ dataBeforeRows' = bRows
  /\ dataAfterRows' = aRows
  /\ rowOffset' = offset
  /\ rowIndex' = 0
  /\ diffRows' = <<>>
  /\ changedColumns' = {}
  /\ headers' = <<>>
  /\ exportColumns' = {}
  /\ exportIndex' = 0
  /\ exportLines' = <<>>
  /\ exported' = <<>>
  /\ pc' = "rows"
  /\ UNCHANGED << fnVars, textVars, csvVars >>

CallCreateCsvDiffTable ==
  /\ pc = "idle"
  /\ \E pair \in TextPairs, cfg \in CsvConfigs :
       LET bRows == parseCsvToRows(pair[1])
           aRows == parseCsvToRows(pair[2])
           extracts == extractsHeader(bRows, aRows, cfg)
       IN /\ csvBeforeText' = pair[1]
          /\ csvAfterText' = pair[2]
          /\ csvConfig' = cfg
          /\ beforeRows' = bRows
          /\ afterRows' = aRows
          /\ actualHeaders' = IF extracts THEN extractCsvHeaders(bRows, aRows) ELSE <<>>
          /\ enterRowLoop(IF extracts THEN dataRowsOf(bRows, cfg) ELSE bRows,
                          IF extracts THEN dataRowsOf(aRows, cfg) ELSE aRows,
                          rowOffsetOf(cfg))
  /\ call' = "createCsvDiffTable"

CallCreateDiffRows ==
  /\ pc = "idle"
  /\ \E bRows \in RowArrays, aRows \in RowArrays, cfg \in CsvConfigs :
       /\ ~cfg.firstRowIsHeader
       /\ csvConfig' = cfg
       /\ beforeRows' = bRows
       /\ afterRows' = aRows
       /\ enterRowLoop(bRows, aRows, 0)
  /\ call' = "createDiffRows"
  /\ UNCHANGED << fnVars, csvBeforeText, csvAfterText, actualHeaders >>

inRowLoop == pc = "rows" /\ rowIndex < Max(Len(dataBeforeRows), Len(dataAfterRows))

currentDiffRow ==
  diffRow(dataBeforeRows, dataAfterRows, rowIndex, rowOffset, Len(diffRows))

rowLoopStep(rows) ==
  /\ diffRows' = rows
  /\ rowIndex' = rowIndex + 1
  /\ UNCHANGED << fnVars, pc, call, textVars, csvVars, csvConfig, csvBeforeText,
                  csvAfterText, beforeRows, afterRows, dataBeforeRows,
                  dataAfterRows, actualHeaders, rowOffset, changedColumns,
                  headers, exportColumns, exportIndex, exportLines, exported >>

\* "if (!beforeRow.length && !afterRow.length) continue"
SkipRow ==
  /\ inRowLoop
  /\ skipsRow(dataBeforeRows, dataAfterRows, rowIndex)
  /\ rowLoopStep(diffRows)

PushDiffRow ==
  /\ inRowLoop
  /\ ~skipsRow(dataBeforeRows, dataAfterRows, rowIndex)
  /\ pushesRow(currentDiffRow, csvConfig)
  /\ rowLoopStep(Append(diffRows, currentDiffRow))

HideDiffRow ==
  /\ inRowLoop
  /\ ~skipsRow(dataBeforeRows, dataAfterRows, rowIndex)
  /\ ~pushesRow(currentDiffRow, csvConfig)
  /\ rowLoopStep(diffRows)

rowLoopDone == pc = "rows" /\ rowIndex >= Max(Len(dataBeforeRows), Len(dataAfterRows))

ReturnDiffRows ==
  /\ rowLoopDone
  /\ call = "createDiffRows"
  /\ pc' = "rowsDone"
  /\ UNCHANGED << fnVars, call, textVars, csvVars, tableVars >>

\* The rest of createCsvDiffTable after the rows are built
ReturnCsvDiffTable ==
  /\ rowLoopDone
  /\ call = "createCsvDiffTable"
  /\ changedColumns' = tableChangedColumns(diffRows, csvConfig)
  /\ headers' = tableHeaders(actualHeaders, dataBeforeRows, dataAfterRows,
                             changedColumns', csvConfig)
  /\ pc' = "table"
  /\ UNCHANGED << fnVars, call, textVars, csvVars, csvConfig, csvBeforeText,
                  csvAfterText, beforeRows, afterRows, dataBeforeRows,
                  dataAfterRows, actualHeaders, rowOffset, rowIndex, diffRows,
                  exportColumns, exportIndex, exportLines, exported >>

exportStep(newLines, newIndex, newColumns, newPc) ==
  /\ exportColumns' = newColumns
  /\ exportLines' = newLines
  /\ exportIndex' = newIndex
  /\ pc' = newPc
  /\ UNCHANGED << fnVars, call, textVars, csvVars, csvConfig, csvBeforeText,
                  csvAfterText, beforeRows, afterRows, dataBeforeRows,
                  dataAfterRows, actualHeaders, rowOffset, rowIndex, diffRows,
                  changedColumns, headers, exported >>

\* exportDiffTableToCsv up to its loop over the rows
CallExportDiffTableToCsv ==
  /\ pc = "table"
  /\ exportStep(exportHeaderLines(headers), 0,
                exportChangedColumns(diffRows, csvConfig), "export")

\* exportDiffTableToCsv of the table without headers that holds the rows
\* createDiffRows returned
CallExportRows ==
  /\ pc = "rowsDone"
  /\ exportStep(exportHeaderLines(headers), 0,
                exportChangedColumns(diffRows, csvConfig), "export")

ExportRow ==
  /\ pc = "export"
  /\ exportIndex < Len(diffRows)
  /\ exportStep(Append(exportLines,
                       Join(exportRowData(diffRows[exportIndex + 1],
                                          exportColumns, csvConfig), COMMA)),
                exportIndex + 1, exportColumns, "export")

ReturnExport ==
  /\ pc = "export"
  /\ exportIndex >= Len(diffRows)
  /\ exported' = Join(exportLines, NL)
  /\ pc' = "exported"
  /\ UNCHANGED << fnVars, call, textVars, csvVars, csvConfig, csvBeforeText,
                  csvAfterText, beforeRows, afterRows, dataBeforeRows,
                  dataAfterRows, actualHeaders, rowOffset, rowIndex, diffRows,
                  changedColumns, headers, exportColumns, exportIndex,
                  exportLines >>

NextTable ==
  \/ CallCreateCsvDiffTable
  \/ CallCreateDiffRows
  \/ SkipRow
  \/ PushDiffRow
  \/ HideDiffRow
  \/ ReturnDiffRows
  \/ ReturnCsvDiffTable
  \/ CallExportDiffTableToCsv
  \/ CallExportRows
  \/ ExportRow
  \/ ReturnExport

SpecTable == Init /\ [][NextTable]_vars

\* ------------------------------------------------------------------------
\* Single function calls: parseCsvLine, parseCsvToRows,
\* stripCsvFormattingQuotes and computeWordChanges are called on their own
\* with any string; each call is one step
\* ------------------------------------------------------------------------
MaxChars == 4

MaxWordChars == 3

\* Characters of the strings given to the CSV functions
CsvChars == { "a", QUOTE, COMMA, NL, CR }

CsvStrings == SeqsUpTo(CsvChars, MaxChars)

\* Characters of the strings given to computeWordChanges
WordTextChars == { "a", "b", SPACE }

WordTexts == SeqsUpTo(WordTextChars, MaxWordChars)

\* What no single function call changes
fnFrame == UNCHANGED << textVars, csvVars, tableVars >>

CallParseCsvLine ==
  /\ pc = "idle"
  /\ \E line \in CsvStrings :
       /\ fnArgs' = << line >>
       /\ fnResult' = parseCsvLine(line)
  /\ call' = "parseCsvLine"
  /\ pc' = "returned"
  /\ fnFrame

CallParseCsvToRows ==
  /\ pc = "idle"
  /\ \E text \in CsvStrings :
       /\ fnArgs' = << text >>
       /\ fnResult' = parseCsvToRows(text)
  /\ call' = "parseCsvToRows"
  /\ pc' = "returned"
  /\ fnFrame

CallStripCsvFormattingQuotes ==
  /\ pc = "idle"
  /\ \E field \in CsvStrings :
       /\ fnArgs' = << field >>
       /\ fnResult' = stripCsvFormattingQuotes(field)
  /\ call' = "stripCsvFormattingQuotes"
  /\ pc' = "returned"
  /\ fnFrame

CallComputeWordChanges ==
  /\ pc = "idle"
  /\ \E before \in WordTexts, after \in WordTexts :
       /\ fnArgs' = << before, after >>
       /\ fnResult' = computeWordChanges(before, after)
  /\ call' = "computeWordChanges"
  /\ pc' = "returned"
  /\ fnFrame

NextFns ==
  \/ CallParseCsvLine
  \/ CallParseCsvToRows
  \/ CallStripCsvFormattingQuotes
  \/ CallComputeWordChanges

SpecFns == Init /\ [][NextFns]_vars

\* ------------------------------------------------------------------------
\* Properties of the text pipeline
\* ------------------------------------------------------------------------
Has(line, field) == field \in DOMAIN line

Returned == pc = "done"

Positions == 1..Len(diffLines)

\* type and content of each DiffLine, in output order
Shape(lines) ==
  [k \in 1..Len(lines) |-> << lines[k].type, lines[k].content >>]

SameShape(type, contents) == [k \in 1..Len(contents) |-> << type, contents[k] >>]

CountType(lines, type) == Cardinality({ k \in 1..Len(lines) : lines[k].type = type })

DeleteAt(seq, k) == SubSeq(seq, 1, k - 1) \o SubSeq(seq, k + 1, Len(seq))

\* C1: the beforeLineNumber values of the DiffLines that carry one are
\* 1-based and strictly increasing in output order, and likewise the
\* afterLineNumber values, whether or not unchanged lines are hidden.
C1_LineNumbersIncrease ==
  /\ \A p \in Positions :
       /\ Has(diffLines[p], "beforeLineNumber") => diffLines[p].beforeLineNumber >= 1
       /\ Has(diffLines[p], "afterLineNumber") => diffLines[p].afterLineNumber >= 1
  /\ \A p \in Positions, q \in Positions :
       p < q =>
         /\ (Has(diffLines[p], "beforeLineNumber") /\ Has(diffLines[q], "beforeLineNumber"))
              => diffLines[p].beforeLineNumber < diffLines[q].beforeLineNumber
         /\ (Has(diffLines[p], "afterLineNumber") /\ Has(diffLines[q], "afterLineNumber"))
              => diffLines[p].afterLineNumber < diffLines[q].afterLineNumber

\* A result with hidden unchanged lines between two removed lines, and an
\* added line, all numbered
C1_Witness ==
  /\ Returned
  /\ config.hideUnchangedRows
  /\ \E p \in Positions, q \in Positions :
       /\ p < q
       /\ Has(diffLines[p], "beforeLineNumber")
       /\ Has(diffLines[q], "beforeLineNumber")
       /\ diffLines[q].beforeLineNumber > diffLines[p].beforeLineNumber + 1
  /\ \E p \in Positions : Has(diffLines[p], "afterLineNumber")

\* C2: an unchanged line has both line numbers and no wordChanges, a removed
\* line has beforeLineNumber and no afterLineNumber, an added line has
\* afterLineNumber and no beforeLineNumber.
C2_FieldInvariant ==
  \A p \in Positions :
    LET line == diffLines[p] IN
    /\ line.type \in {"unchanged", "removed", "added"}
    /\ line.type = "unchanged" =>
         /\ Has(line, "beforeLineNumber")
         /\ Has(line, "afterLineNumber")
         /\ ~Has(line, "wordChanges")
    /\ line.type = "removed" =>
         Has(line, "beforeLineNumber") /\ ~Has(line, "afterLineNumber")
    /\ line.type = "added" =>
         Has(line, "afterLineNumber") /\ ~Has(line, "beforeLineNumber")

C2_Witness ==
  /\ Returned
  /\ \A type \in {"unchanged", "removed", "added"} :
       \E p \in Positions : diffLines[p].type = type
  /\ \E p \in Positions : Has(diffLines[p], "wordChanges")
  /\ \E p \in Positions : diffLines[p].type # "unchanged" /\ ~Has(diffLines[p], "wordChanges")

\* C3: the result with hideUnchangedRows=true is the result with
\* hideUnchangedRows=false without its unchanged DiffLines; the remaining
\* lines keep type, content, line number and wordChanges, in the same order.
IsChangedLine(line) == line.type # "unchanged"

C3_HiddenIsFilteredVisible ==
  (Returned /\ config.hideUnchangedRows) =>
    diffLines =
      SelectSeq(createDiffLines(beforeLines, afterLines,
                                [config EXCEPT !.hideUnchangedRows = FALSE]),
                IsChangedLine)

\* A hidden-rows result whose lines come after hidden unchanged lines
C3_Witness ==
  /\ Returned
  /\ config.hideUnchangedRows
  /\ diffLines # <<>>
  /\ \E p \in Positions :
       \/ Has(diffLines[p], "beforeLineNumber") /\ diffLines[p].beforeLineNumber > p
       \/ Has(diffLines[p], "afterLineNumber") /\ diffLines[p].afterLineNumber > p

\* C4: a DiffLine carries wordChanges exactly when it was emitted from a
\* modification block; there the removed and the added line of positional
\* pair j both carry computeWordChanges(beforeLine, afterLine) of pair j
\* (a side is emitted if it is non-empty); lines of other runs carry none.
Emitted == SubSeq(diffLines', Len(diffLines) + 1, Len(diffLines'))

Brief(line) ==
  IF Has(line, "wordChanges")
  THEN << line.type, line.content, line.wordChanges >>
  ELSE << line.type, line.content >>

RECURSIVE PairedLines(_, _, _)
PairedLines(removedLines, addedLines, n) ==
  IF n > Max(Len(removedLines), Len(addedLines)) THEN <<>>
  ELSE LET b == IF n <= Len(removedLines) THEN removedLines[n] ELSE <<>>
           a == IF n <= Len(addedLines) THEN addedLines[n] ELSE <<>>
           wc == computeWordChanges(b, a)
       IN (IF b # <<>> THEN << << "removed", b, wc >> >> ELSE <<>>)
          \o (IF a # <<>> THEN << << "added", a, wc >> >> ELSE <<>>)
          \o PairedLines(removedLines, addedLines, n + 1)

\* C4, one step of the loop: the lines it emits carry wordChanges exactly
\* when the step is a modification block, and then those of their pair.
C4_Step ==
  (pc = "loop" /\ i' # i) =>
    /\ Len(diffLines') >= Len(diffLines)
    /\ SubSeq(diffLines', 1, Len(diffLines)) = diffLines
    /\ IF changes[i + 1].removed /\ i + 2 <= Len(changes) /\ changes[i + 2].added
       THEN [k \in 1..Len(Emitted) |-> Brief(Emitted[k])]
              = PairedLines(changes[i + 1].value, changes[i + 2].value, 1)
       ELSE \A k \in 1..Len(Emitted) : ~Has(Emitted[k], "wordChanges")

\* C4 holds of every step of createDiffLines.
C4_WordChangesFromModification == [][C4_Step]_vars

\* A result holding a removed and an added line of one pair with equal
\* wordChanges, and a removed or added line without wordChanges
C4_Witness ==
  /\ Returned
  /\ \E p \in Positions :
       /\ p + 1 \in Positions
       /\ diffLines[p].type = "removed"
       /\ diffLines[p + 1].type = "added"
       /\ Has(diffLines[p], "wordChanges")
       /\ Has(diffLines[p + 1], "wordChanges")
       /\ diffLines[p].wordChanges = diffLines[p + 1].wordChanges
       /\ Len(diffLines[p].wordChanges) = 2
  /\ \E p \in Positions :
       diffLines[p].type # "unchanged" /\ ~Has(diffLines[p], "wordChanges")

\* C5: when one line between unchanged neighbours is replaced by a line
\* that differs from it and from both neighbours, computeTextDiff
\* (hideUnchangedRows=false) returns the unchanged lines before it, one
\* removed line with the old content, one added line with the new content,
\* and the unchanged lines after it; in general the lines of a modification
\* block are emitted pair by pair, removed before added, and the added run
\* is not emitted again as a run of its own.
IsSingleReplacement(b, a, k) ==
  /\ Len(a) = Len(b)
  /\ 1 < k /\ k < Len(b)
  /\ \A m \in 1..Len(b) : m # k => a[m] = b[m]
  /\ a[k] # b[k]
  /\ { a[k], b[k] } \cap { b[k - 1], b[k + 1] } = {}

ReplacementShape(b, a, k) ==
  SameShape("unchanged", SubSeq(b, 1, k - 1))
    \o << << "removed", b[k] >>, << "added", a[k] >> >>
    \o SameShape("unchanged", SubSeq(b, k + 1, Len(b)))

RECURSIVE Interleaved(_, _, _)
Interleaved(removedLines, addedLines, n) ==
  IF n > Max(Len(removedLines), Len(addedLines)) THEN <<>>
  ELSE (IF n <= Len(removedLines) THEN << << "removed", removedLines[n] >> >> ELSE <<>>)
       \o (IF n <= Len(addedLines) THEN << << "added", addedLines[n] >> >> ELSE <<>>)
       \o Interleaved(removedLines, addedLines, n + 1)

RECURSIVE RunsInOrder(_, _)
RunsInOrder(chs, k) ==
  IF k > Len(chs) THEN <<>>
  ELSE IF chs[k].removed /\ k + 1 <= Len(chs) /\ chs[k + 1].added
  THEN Interleaved(chs[k].value, chs[k + 1].value, 1) \o RunsInOrder(chs, k + 2)
  ELSE SameShape(IF chs[k].removed THEN "removed"
                 ELSE IF chs[k].added THEN "added" ELSE "unchanged",
                 chs[k].value)
       \o RunsInOrder(chs, k + 1)

\* C5 on the result of computeTextDiff with hideUnchangedRows=false: the
\* single replacement gives unchanged, removed, added, unchanged, and every
\* modification block is emitted pair by pair.
C5_ReplacementOrder ==
  (Returned /\ call = "computeTextDiff" /\ ~config.hideUnchangedRows) =>
    /\ \A k \in 1..Len(beforeLines) :
         IsSingleReplacement(beforeLines, afterLines, k) =>
           Shape(diffLines) = ReplacementShape(beforeLines, afterLines, k)
    /\ Shape(diffLines) = RunsInOrder(changes, 1)

\* C6: if afterLines is beforeLines with exactly one line deleted (or one
\* line inserted), the visible result has exactly one removed (added) line
\* and every other line unchanged with its content, numbered with a shift of
\* one after the edit; the hidden result is that single line alone.
UnchangedContents(lines) ==
  LET IsUnchangedLine(line) == line.type = "unchanged"
      kept == SelectSeq(lines, IsUnchangedLine)
  IN [k \in 1..Len(kept) |-> kept[k].content]

SingleEdit(lines, type, content, longer, shorter) ==
  IF config.hideUnchangedRows
  THEN /\ Len(lines) = 1
       /\ lines[1].type = type
       /\ lines[1].content = content
  ELSE /\ Len(lines) = Len(longer)
       /\ CountType(lines, type) = 1
       /\ CountType(lines, "unchanged") = Len(shorter)
       /\ UnchangedContents(lines) = shorter
       /\ \E p \in 1..Len(lines) :
            /\ lines[p].type = type
            /\ lines[p].content = content
            /\ \A q \in 1..Len(lines) :
                 q # p =>
                   LET shift == IF q < p THEN 0 ELSE 1
                       d == lines[q].beforeLineNumber - lines[q].afterLineNumber
                   IN d = (IF type = "removed" THEN shift ELSE 0 - shift)

\* C6 on the result of createDiffLines: one deleted or one inserted line
\* gives exactly one removed or added DiffLine.
C6_SingleLineEdit ==
  Returned =>
    /\ \A k \in 1..Len(beforeLines) :
         afterLines = DeleteAt(beforeLines, k) =>
           SingleEdit(diffLines, "removed", beforeLines[k], beforeLines, afterLines)
    /\ \A k \in 1..Len(afterLines) :
         beforeLines = DeleteAt(afterLines, k) =>
           SingleEdit(diffLines, "added", afterLines[k], afterLines, beforeLines)

\* A visible result for a line deleted from the middle of three lines
C6_Witness ==
  /\ Returned
  /\ ~config.hideUnchangedRows
  /\ Len(beforeLines) = 3
  /\ afterLines = DeleteAt(beforeLines, 2)
  /\ Len(diffLines) = 3
  /\ diffLines[3].type = "unchanged"
  /\ diffLines[3].beforeLineNumber = 3
  /\ diffLines[3].afterLineNumber = 2

\* C7: computeTextDiff(s, s, config) with hideUnchangedRows=false returns
\* one unchanged DiffLine per line of s (at least one), the i-th with the
\* content of the i-th line and both line numbers i; with
\* hideUnchangedRows=true it returns the empty sequence.
CountChar(str, char) == Cardinality({ k \in 1..Len(str) : str[k] = char })

\* C7 on the result of computeTextDiff(s, s, config): one unchanged line per
\* line of s numbered i on both sides, or nothing when hidden.
C7_IdenticalTexts ==
  (Returned /\ call = "computeTextDiff" /\ beforeText = afterText) =>
    IF config.hideUnchangedRows
    THEN diffLines = <<>>
    ELSE /\ Len(diffLines) = 1 + CountChar(beforeText, NL)
         /\ \A p \in Positions :
              /\ diffLines[p] = [type |-> "unchanged",
                                 content |-> diffLines[p].content,
                                 beforeLineNumber |-> p,
                                 afterLineNumber |-> p]
              /\ ~Includes(diffLines[p].content, NL)
         /\ Join([p \in Positions |-> diffLines[p].content], NL) = beforeText

\* The visible result for a text of several lines with an empty one
C7_Witness ==
  /\ Returned
  /\ call = "computeTextDiff"
  /\ beforeText = afterText
  /\ ~config.hideUnchangedRows
  /\ Len(diffLines) >= 2
  /\ \E p \in Positions : diffLines[p].content = <<>>
  /\ \E p \in Positions : diffLines[p].content # <<>>

\* C8: every DiffLine returned by createDiffLines exposes its 1-based line
\* number in a field named lineNumber; for identical inputs the i-th line
\* has lineNumber = i, and a removed line has lineNumber equal to its
\* position in the before sequence.
C8_LineNumberField ==
  Returned =>
    \A p \in Positions :
      /\ Has(diffLines[p], "lineNumber")
      /\ beforeLines = afterLines => diffLines[p].lineNumber = p
      /\ diffLines[p].type = "removed" =>
           diffLines[p].content = beforeLines[diffLines[p].lineNumber]

\* ------------------------------------------------------------------------
\* Properties of cell diffing
\* ------------------------------------------------------------------------
CellsReturned == pc = "cellsDone"

\* C9: each DiffCell has hasChange = true exactly when its stored before
\* value differs from its stored after value, and has an empty wordChanges
\* list when hasChange is false.
C9_HasChangeIffStoredDiffer ==
  CellsReturned =>
    \A k \in 1..Len(diffCells) :
      /\ diffCells[k].hasChange <=> (diffCells[k].before # diffCells[k].after)
      /\ ~diffCells[k].hasChange => diffCells[k].wordChanges = <<>>

\* C10: DiffCell.before / DiffCell.after equals the input cell value unless
\* the value is wrapped in formatting-only quotes; the double quotes of a
\* cell that parseCsvLine produced from escaped quotes are content and are
\* never removed.
C10_ContentQuotesPreserved ==
  CellsReturned =>
    \A k \in 1..Len(diffCells) :
      /\ diffCells[k].before = cellAt(beforeRow, k - 1)
      /\ diffCells[k].after = cellAt(afterRow, k - 1)

\* C11: createDiffCells returns exactly max(len(beforeRow), len(afterRow))
\* cells; a cell missing on one side is treated as the empty string, so it
\* has hasChange = true exactly when the other side's cell at that index is
\* non-empty.
C11_MissingCellsAreEmpty ==
  CellsReturned =>
    /\ Len(diffCells) = (IF Len(beforeRow) >= Len(afterRow)
                         THEN Len(beforeRow) ELSE Len(afterRow))
    /\ \A k \in 1..Len(diffCells) :
         /\ k > Len(beforeRow) =>
              /\ diffCells[k].before = <<>>
              /\ diffCells[k].hasChange <=> (afterRow[k] # <<>>)
         /\ k > Len(afterRow) =>
              /\ diffCells[k].after = <<>>
              /\ diffCells[k].hasChange <=> (beforeRow[k] # <<>>)

C11_Witness ==
  /\ CellsReturned
  /\ Len(beforeRow) = 1
  /\ Len(afterRow) = 2
  /\ beforeRow[1] = afterRow[2]
  /\ afterRow[2] # <<>>
  /\ Len(diffCells) = 2
  /\ diffCells[2].hasChange

\* ------------------------------------------------------------------------
\* Properties of table diffing
\* ------------------------------------------------------------------------
RowsReturned == pc \in { "rowsDone", "table", "export", "exported" }

TableReturned ==
  call = "createCsvDiffTable" /\ pc \in { "table", "export", "exported" }

Exported == pc = "exported"

MaxRowCount ==
  IF Len(dataBeforeRows) >= Len(dataAfterRows)
  THEN Len(dataBeforeRows) ELSE Len(dataAfterRows)

\* Data row n (1-based) of a side; a missing row counts as empty
DataRow(rows, n) == IF n <= Len(rows) THEN rows[n] ELSE <<>>

\* No index at which both sides have a row without cells
NoEmptyPair ==
  \A n \in 1..MaxRowCount :
    DataRow(dataBeforeRows, n) # <<>> \/ DataRow(dataAfterRows, n) # <<>>

HasChangedCell(row) == \E c \in 1..Len(row.cells) : row.cells[c].hasChange

\* C12: table rows are aligned by position only: the DiffRow for data index
\* i is built from before data row i and after data row i (a missing row
\* counts as empty), and each DiffRow has hasChanges = true exactly when at
\* least one of its cells has hasChange = true.
C12_RowsAlignedByPosition ==
  RowsReturned =>
    /\ \A k \in 1..Len(diffRows) : diffRows[k].hasChanges <=> HasChangedCell(diffRows[k])
    /\ (~csvConfig.hideUnchangedRows /\ NoEmptyPair) =>
         /\ Len(diffRows) = MaxRowCount
         /\ \A k \in 1..Len(diffRows) :
              diffRows[k].cells = createDiffCells(DataRow(dataBeforeRows, k),
                                                  DataRow(dataAfterRows, k))

\* A row inserted in front: the old first row is compared with the new row
\* and the missing second row with the old first row
C12_Witness ==
  /\ RowsReturned
  /\ ~csvConfig.hideUnchangedRows
  /\ Len(dataBeforeRows) = 1
  /\ Len(dataAfterRows) = 2
  /\ dataAfterRows[2] = dataBeforeRows[1]
  /\ Len(dataBeforeRows[1]) = 2
  /\ Len(diffRows) = 2
  /\ diffRows[1].hasChanges
  /\ ~diffRows[1].cells[1].hasChange
  /\ diffRows[2].hasChanges

\* A header row was consumed when header mode is on and some side's data
\* set is its rows minus the first
HeaderConsumed ==
  /\ call = "createCsvDiffTable"
  /\ csvConfig.firstRowIsHeader
  /\ \/ Len(dataBeforeRows) < Len(beforeRows)
     \/ Len(dataAfterRows) < Len(afterRows)

\* C13: every DiffRow returned by createCsvDiffTable has rowNumber = (its
\* index in the data set) + 1 + (1 if a header row was consumed from the
\* inputs, else 0); createDiffRows without an offset numbers rows index + 1.
C13_RowNumbers ==
  (RowsReturned /\ ~csvConfig.hideUnchangedRows /\ NoEmptyPair) =>
    \A k \in 1..Len(diffRows) :
      diffRows[k].rowNumber = (k - 1) + 1 + (IF HeaderConsumed THEN 1 ELSE 0)

\* C14: with firstRowIsHeader set, each side's data set is its rows minus
\* the first row; a side whose text parses to exactly one row contributes
\* an empty data set, so its header row is never compared as a data row.
C14_HeaderOnlySideIsEmpty ==
  (RowsReturned /\ call = "createCsvDiffTable" /\ csvConfig.firstRowIsHeader) =>
    /\ dataBeforeRows = Tail(beforeRows)
    /\ dataAfterRows = Tail(afterRows)
    /\ Len(beforeRows) = 1 =>
         \A k \in 1..Len(diffRows) :
           \A c \in 1..Len(diffRows[k].cells) : diffRows[k].cells[c].before = <<>>

VisibleConfig == [csvConfig EXCEPT !.hideUnchangedRows = FALSE]

\* C15: with hideUnchangedRows = true the rows returned are exactly the
\* rows of the hideUnchangedRows = false result that have at least one
\* changed cell, in the same order and with the same rowNumber.
C15_HiddenRowsAreFilteredVisible ==
  (RowsReturned /\ csvConfig.hideUnchangedRows) =>
    /\ diffRows = SelectSeq(createDiffRowsWithOffset(dataBeforeRows, dataAfterRows,
                                                     VisibleConfig, rowOffset),
                            HasChangedCell)
    /\ call = "createCsvDiffTable" =>
         diffRows = SelectSeq(createCsvDiffTable(csvBeforeText, csvAfterText,
                                                 VisibleConfig).rows,
                              HasChangedCell)

\* An unchanged row is hidden in front of a changed one, which keeps its number
C15_Witness ==
  /\ RowsReturned
  /\ csvConfig.hideUnchangedRows
  /\ Len(diffRows) = 1
  /\ diffRows[1].rowNumber = 2 + rowOffset
  /\ Len(createDiffRowsWithOffset(dataBeforeRows, dataAfterRows,
                                  VisibleConfig, rowOffset)) = 2

\* ------------------------------------------------------------------------
\* Properties of the headers and of the export
\* ------------------------------------------------------------------------
\* 0-based indices of the columns in which some returned row has a changed cell
ColumnsWithChange ==
  { c \in 0..8 : \E r \in 1..Len(diffRows) :
                   c < Len(diffRows[r].cells) /\ diffRows[r].cells[c + 1].hasChange }

\* Largest cell count over all before and after data rows
MaxCellCount ==
  LET counts == { Len(dataBeforeRows[r]) : r \in 1..Len(dataBeforeRows) }
                \cup { Len(dataAfterRows[r]) : r \in 1..Len(dataAfterRows) }
  IN CHOOSE m \in counts : \A n \in counts : n <= m

\* "Column N" for N in 1..9
ColumnN(n) == << "C", "o", "l", "u", "m", "n", " ", DecimalDigits[n + 1] >>

WithBefore(label) == label \o << " ", "B", "e", "f", "o", "r", "e" >>

WithAfter(label) == label \o << " ", "A", "f", "t", "e", "r" >>

\* The headers in which exactly the columns of the set cols are expanded
Expanded(labels, cols, base(_)) ==
  Flatten([n \in 1..Len(labels) |->
             IF (n - 1) \in cols
             THEN << WithBefore(base(labels[n])), WithAfter(base(labels[n])) >>
             ELSE << labels[n] >>])

AsExtracted(label) == label

Trimmed(label) ==
  LET inside == { n \in 1..Len(label) : label[n] \notin WhiteSpace }
  IN IF inside = {} THEN <<>>
     ELSE SubSeq(label, CHOOSE n \in inside : \A m \in inside : n <= m,
                        CHOOSE n \in inside : \A m \in inside : m <= n)

\* A field as it is written: wrapped in double quotes, inner quotes doubled
QuotedField(field) ==
  << QUOTE >>
  \o Flatten([n \in 1..Len(field) |->
                IF field[n] = QUOTE THEN << QUOTE, QUOTE >> ELSE << field[n] >>])
  \o << QUOTE >>

QuotedLine(fields) == Join([n \in 1..Len(fields) |-> QuotedField(fields[n])], COMMA)

\* The values exported for one row when the columns of cols show both values
RowFields(row, cols) ==
  Flatten([c \in 1..Len(row.cells) |->
             IF (c - 1) \in cols
             THEN << row.cells[c].before, row.cells[c].after >>
             ELSE << row.cells[c].after >>])

\* The lines of the exported text; the empty text has none
ExportedLines == IF exported = <<>> THEN <<>> ELSE Split(exported, NL)

HeaderLineCount == IF headers # <<>> THEN 1 ELSE 0

\* C16: detectChangedColumns returns exactly the set of column indices j for
\* which some row has a cell j with hasChange = true; createCsvDiffTable and
\* exportDiffTableToCsv use this set only when beforeAfterColumn is set and
\* otherwise treat it as empty, so with beforeAfterColumn = false no header
\* is expanded and every cell exports as a single field.
C16_ChangedColumns ==
  Exported =>
    /\ csvConfig.beforeAfterColumn =>
         /\ TableReturned => changedColumns = ColumnsWithChange
         /\ exportColumns = ColumnsWithChange
    /\ ~csvConfig.beforeAfterColumn =>
         /\ changedColumns = {}
         /\ exportColumns = {}
         /\ TableReturned =>
              headers = (IF csvConfig.firstRowIsHeader
                         THEN actualHeaders
                         ELSE [n \in 1..MaxCellCount |-> ColumnN(n)])
         /\ \A r \in 1..Len(diffRows) :
              LET fields == parseCsvLine(ExportedLines[HeaderLineCount + r])
              IN /\ Len(fields) = Len(diffRows[r].cells)
                 /\ \A c \in 1..Len(fields) : fields[c] = diffRows[r].cells[c].after

\* Only the second row changes, in the second column only
C16_Witness ==
  /\ Exported
  /\ TableReturned
  /\ csvConfig.beforeAfterColumn
  /\ Len(diffRows) = 2
  /\ ~diffRows[1].hasChanges
  /\ changedColumns = { 1 }
  /\ exportColumns = { 1 }
  /\ Len(parseCsvLine(ExportedLines[HeaderLineCount + 2])) = 3

\* C17 as stated: with firstRowIsHeader set, the headers are the extracted
\* labels unchanged when beforeAfterColumn is false; when it is true, each
\* changed column's label L is replaced by the two consecutive entries
\* "L Before" and "L After" built from the label exactly as extracted, and
\* every unchanged column's label is passed through unchanged and in order.
C17_HeadersFromExactLabels ==
  (TableReturned /\ csvConfig.firstRowIsHeader) =>
    headers = (IF csvConfig.beforeAfterColumn
               THEN Expanded(actualHeaders, ColumnsWithChange, AsExtracted)
               ELSE actualHeaders)

\* C17 as amended: the two entries of a changed column are built from the
\* label with the white space at its ends removed.
C17_HeadersFromTrimmedLabels ==
  (TableReturned /\ csvConfig.firstRowIsHeader) =>
    /\ actualHeaders = [n \in 1..Len(afterRows[1]) |->
                          stripCsvFormattingQuotes(afterRows[1][n])]
    /\ headers = (IF csvConfig.beforeAfterColumn
                  THEN Expanded(actualHeaders, ColumnsWithChange, Trimmed)
                  ELSE actualHeaders)

\* A label with white space around it, in a column that changes
C17_Witness ==
  /\ TableReturned
  /\ csvConfig.firstRowIsHeader
  /\ csvConfig.beforeAfterColumn
  /\ actualHeaders = << << SPACE, "a", SPACE >>, << "b" >> >>
  /\ ColumnsWithChange = { 0 }
  /\ headers = << << "a", " ", "B", "e", "f", "o", "r", "e" >>,
                  << "a", " ", "A", "f", "t", "e", "r" >>,
                  << "b" >> >>

NameLabel == << "N", "a", "m", "e" >>

ValueLabel == << "V", "a", "l", "u", "e" >>

NameValueScenario ==
  /\ TableReturned
  /\ csvConfig.beforeAfterColumn
  /\ csvConfig.firstRowIsHeader
  /\ beforeRows[1] = << NameLabel, ValueLabel >>
  /\ afterRows[1] = << NameLabel, ValueLabel >>
  /\ ColumnsWithChange = { 1 }

\* C18 as stated: with beforeAfterColumn and firstRowIsHeader over a table
\* with header labels Name, Value in which only column 1 (0-indexed) ever
\* changes, the headers are "Name Before", "Name After", "Value".
C18_NameExpanded ==
  NameValueScenario =>
    headers = << WithBefore(NameLabel), WithAfter(NameLabel), ValueLabel >>

\* C18 as amended: in that table the headers are "Name", "Value Before",
\* "Value After" (column 1's label expanded, column 0's passed through).
C18_ValueExpanded ==
  NameValueScenario =>
    headers = << NameLabel, WithBefore(ValueLabel), WithAfter(ValueLabel) >>

C18_Witness ==
  /\ NameValueScenario
  /\ Len(diffRows) >= 1
  /\ headers[1] = NameLabel
  /\ Len(headers) = 3

\* C19: when no header row is extracted (firstRowIsHeader = false), the
\* headers are "Column N" for N = 1..(maximum cell count over all before and
\* after data rows), in order; with beforeAfterColumn set each changed
\* column N is instead the two consecutive entries "Column N Before",
\* "Column N After", and with it unset no column is expanded.
C19_SynthesizedHeaders ==
  (TableReturned /\ ~csvConfig.firstRowIsHeader) =>
    /\ dataBeforeRows = beforeRows
    /\ dataAfterRows = afterRows
    /\ headers = Expanded([n \in 1..MaxCellCount |-> ColumnN(n)],
                          IF csvConfig.beforeAfterColumn THEN ColumnsWithChange ELSE {},
                          AsExtracted)

\* Rows of one and of two cells, the second column changes
C19_Witness ==
  /\ TableReturned
  /\ ~csvConfig.firstRowIsHeader
  /\ csvConfig.beforeAfterColumn
  /\ Len(beforeRows[1]) = 1
  /\ MaxCellCount = 2
  /\ ColumnsWithChange = { 1 }
  /\ headers = << ColumnN(1), WithBefore(ColumnN(2)), WithAfter(ColumnN(2)) >>

\* C20: exportDiffTableToCsv returns (1 if headers is non-empty else 0) +
\* rows.length lines, the header line first and data rows in table order,
\* joined by a single newline with no trailing newline; every field is
\* wrapped in double quotes with each internal double quote doubled, and
\* fields are joined by commas.
C20_ExportedLines ==
  Exported =>
    /\ Len(ExportedLines) = HeaderLineCount + Len(diffRows)
    /\ exported # <<>> => exported[Len(exported)] # NL
    /\ headers # <<>> => ExportedLines[1] = QuotedLine(headers)
    /\ \A r \in 1..Len(diffRows) :
         ExportedLines[HeaderLineCount + r] =
           QuotedLine(RowFields(diffRows[r],
                                IF csvConfig.beforeAfterColumn
                                THEN ColumnsWithChange ELSE {}))

\* A cell holding a double quote is exported with the quote doubled
C20_Witness ==
  /\ Exported
  /\ Len(diffRows) = 2
  /\ Len(diffRows[2].cells) = 2
  /\ diffRows[2].cells[2].after = << "a", QUOTE, COMMA, "b" >>
  /\ ExportedLines[HeaderLineCount + 2] =
       << QUOTE, "a", QUOTE, COMMA, QUOTE, "a", QUOTE, QUOTE, COMMA, "b", QUOTE >>

\* ------------------------------------------------------------------------
\* Properties of the exported cells
\* ------------------------------------------------------------------------
\* Columns shown with both values by the export
ShownTwice == IF csvConfig.beforeAfterColumn THEN ColumnsWithChange ELSE {}

\* 1-based position, in the exported line of a row, of the first field of
\* the cell with 1-based position c
FieldPosition(c) == c + Cardinality({ k \in ShownTwice : k < c - 1 })

\* The fields read back from the exported line of row r
ExportedFields(r) == parseCsvLine(ExportedLines[HeaderLineCount + r])

\* C21: the export emits, for every cell in a changed column when
\* beforeAfterColumn is set, the before value followed by the after value
\* (also in rows where that cell is itself unchanged), and for every other
\* cell only the after value.
C21_BeforeThenAfter ==
  Exported =>
    \A r \in 1..Len(diffRows) :
      LET cells == diffRows[r].cells
          fields == ExportedFields(r)
      IN /\ Len(fields) = FieldPosition(Len(cells) + 1) - 1
         /\ \A c \in 1..Len(cells) :
              IF (c - 1) \in ShownTwice
              THEN /\ fields[FieldPosition(c)] = cells[c].before
                   /\ fields[FieldPosition(c) + 1] = cells[c].after
              ELSE /\ fields[FieldPosition(c)] = cells[c].after
                   /\ FieldPosition(c + 1) = FieldPosition(c) + 1

\* An unchanged cell of a changed column is exported with both its values
C21_Witness ==
  /\ Exported
  /\ csvConfig.beforeAfterColumn
  /\ Len(diffRows) = 2
  /\ Len(diffRows[1].cells) = 2
  /\ ~diffRows[1].cells[2].hasChange
  /\ diffRows[2].hasChanges
  /\ ShownTwice = { 1 }
  /\ ExportedFields(1) = << << "a" >>, diffRows[1].cells[2].before, diffRows[1].cells[2].after >>

\* ------------------------------------------------------------------------
\* Properties of exporting the diff of a text with itself
\* ------------------------------------------------------------------------
\* The table of a text diffed against itself has been exported
SelfDiffExported ==
  /\ Exported
  /\ TableReturned
  /\ csvBeforeText = csvAfterText

\* C22: CSV round-trip: for every CSV text a, the export of
\* createCsvDiffTable(a, a, cfg) under the same cfg is a CSV whose lines are
\* the rows of a (header row and data rows, in order, same cells) with every
\* field individually quoted.  Stated for the configs that show every row
\* and take the first row as the header.
C22_RoundTrip ==
  (SelfDiffExported /\ csvConfig.firstRowIsHeader /\ ~csvConfig.hideUnchangedRows) =>
    ExportedLines = [r \in 1..Len(afterRows) |-> QuotedLine(afterRows[r])]

\* With more than one row in the text the lines are the rows of the text
SelfDiffOfSeveralRows ==
  (SelfDiffExported /\ csvConfig.firstRowIsHeader /\ ~csvConfig.hideUnchangedRows
     /\ Len(afterRows) > 1) =>
    ExportedLines = [r \in 1..Len(afterRows) |-> QuotedLine(afterRows[r])]

\* ------------------------------------------------------------------------
\* Properties of the lines kept by createDiffLines
\* ------------------------------------------------------------------------
\* The DiffLines of one side, in output order
SideLines(types) ==
  LET OfSide(line) == line.type \in types
  IN SelectSeq(diffLines, OfSide)

\* The lines of a side are exactly the given input lines, numbered 1, 2, ...
\* in the given line-number field
IsExactly(lines, input, field) ==
  /\ Len(lines) = Len(input)
  /\ \A k \in 1..Len(lines) :
       /\ k <= Len(input) => lines[k].content = input[k]
       /\ Has(lines[k], field)
       /\ lines[k][field] = k

\* C26: with hideUnchangedRows=false, for all before/after line arrays
\* (lines may be empty strings), the DiffLines of type removed or unchanged,
\* read in output order, are exactly the before lines in order, each with
\* beforeLineNumber equal to its 1-based index in beforeLines; symmetrically
\* the DiffLines of type added or unchanged are exactly the after lines with
\* their afterLineNumber.  No input line is dropped or duplicated.
C26_EveryLineKept ==
  (Returned /\ ~config.hideUnchangedRows) =>
    /\ IsExactly(SideLines({ "removed", "unchanged" }), beforeLines, "beforeLineNumber")
    /\ IsExactly(SideLines({ "added", "unchanged" }), afterLines, "afterLineNumber")

\* The same when no line of either side is the empty string
EveryNonEmptyLineKept ==
  (Returned /\ ~config.hideUnchangedRows
     /\ (\A k \in 1..Len(beforeLines) : beforeLines[k] # <<>>)
     /\ (\A m \in 1..Len(afterLines) : afterLines[m] # <<>>)) =>
    /\ IsExactly(SideLines({ "removed", "unchanged" }), beforeLines, "beforeLineNumber")
    /\ IsExactly(SideLines({ "added", "unchanged" }), afterLines, "afterLineNumber")

\* C27: for every before/after text and config, the table from
\* createCsvDiffTable exported with the same config is rectangular: every
\* data line of the export has exactly as many fields as the header line
\* (headers.length), also when rows have different cell counts or the header
\* row has fewer or more labels than the data rows have cells.
C27_Rectangular ==
  (Exported /\ TableReturned) =>
    \A r \in 1..Len(diffRows) : Len(ExportedFields(r)) = Len(headers)

\* ------------------------------------------------------------------------
\* Properties of the header rows
\* ------------------------------------------------------------------------
\* Both texts have a header row and at least one row under it
BothHeaded ==
  /\ TableReturned
  /\ csvConfig.firstRowIsHeader
  /\ Len(beforeRows) > 1
  /\ Len(afterRows) > 1

\* The before text with its first line replaced by the first line of the
\* after text
BeforeUnderAfterHeader ==
  Join(<< Split(csvAfterText, NL)[1] >> \o Tail(Split(csvBeforeText, NL)), NL)

\* C30: with firstRowIsHeader set and both inputs having more than one row,
\* the two first rows are never compared with each other: the headers come
\* from the after side's first row only, and a difference between the
\* before header row and the after header row produces no DiffRow, no cell
\* with hasChange and no changed column: every DiffRow compares rows of the
\* same position below the header, and the table is the one obtained when
\* the before text carries the after text's header row.
C30_HeaderRowsNotCompared ==
  BothHeaded =>
    /\ actualHeaders = [n \in 1..Len(afterRows[1]) |->
                          stripCsvFormattingQuotes(afterRows[1][n])]
    /\ \A r \in 1..Len(diffRows) :
         LET n == diffRows[r].rowNumber
         IN /\ n >= 2
            /\ diffRows[r].cells = createDiffCells(DataRow(beforeRows, n),
                                                   DataRow(afterRows, n))
    /\ LET table == createCsvDiffTable(BeforeUnderAfterHeader, csvAfterText, csvConfig)
       IN /\ diffRows = table.rows
          /\ headers = table.headers
    /\ changedColumns \subseteq
         { c \in 0..8 : \E n \in 2..Max(Len(beforeRows), Len(afterRows)) :
                          LET cells == createDiffCells(DataRow(beforeRows, n),
                                                       DataRow(afterRows, n))
                          IN c < Len(cells) /\ cells[c + 1].hasChange }

\* The header rows differ, also in their number of labels, and the rows
\* under them are equal: one unchanged DiffRow and no changed column
C30_Witness ==
  /\ BothHeaded
  /\ csvConfig.beforeAfterColumn
  /\ ~csvConfig.hideUnchangedRows
  /\ beforeRows[1] = << << "a" >>, << "b" >> >>
  /\ afterRows[1] = << << "b" >> >>
  /\ Tail(beforeRows) = Tail(afterRows)
  /\ Len(diffRows) = 1
  /\ ~diffRows[1].hasChanges
  /\ changedColumns = {}
  /\ headers = << << "b" >> >>

\* ------------------------------------------------------------------------
\* Properties of reading the export back
\* ------------------------------------------------------------------------
\* C28: export then parse is the identity on fields: for a table whose rows
\* each have at least one cell and whose headers and cell values contain no
\* newline, parseCsvLine applied to each line of the export returns exactly
\* the values emitted for that line (the headers, then per row the before
\* and after values), also for values that hold commas or double quotes or
\* are empty.
C28_ExportThenParse ==
  Exported =>
    /\ \A r \in 1..Len(diffRows) : Len(diffRows[r].cells) >= 1
    /\ headers # <<>> => parseCsvLine(ExportedLines[1]) = headers
    /\ \A r \in 1..Len(diffRows) :
         ExportedFields(r) = RowFields(diffRows[r], ShownTwice)

\* A row exported with an empty value and a value holding a quote and a comma
C28_Witness ==
  /\ Exported
  /\ csvConfig.beforeAfterColumn
  /\ Len(diffRows) >= 1
  /\ ShownTwice = { 0, 1 }
  /\ ExportedLines[HeaderLineCount + 1] =
       << QUOTE, "b", QUOTE, COMMA, QUOTE, "a", QUOTE, COMMA, QUOTE, QUOTE, COMMA,
          QUOTE, "a", QUOTE, QUOTE, COMMA, "b", QUOTE >>
  /\ ExportedFields(1) = << << "b" >>, << "a" >>, <<>>, << "a", QUOTE, COMMA, "b" >> >>

\* ------------------------------------------------------------------------
\* Properties of single function calls
\* ------------------------------------------------------------------------
FnReturned(name) == pc = "returned" /\ call = name

\* Number of double quotes in text before position k (1-based)
QuotesBefore(text, k) == Cardinality({ m \in 1..(k - 1) : text[m] = QUOTE })

\* Positions of the given character that lie outside double quotes
OutsideQuotes(text, char) ==
  { k \in 1..Len(text) : text[k] = char /\ QuotesBefore(text, k) % 2 = 0 }

\* The line without the carriage return at its end
WithoutCR(line) ==
  IF line # <<>> /\ line[Len(line)] = CR THEN SubSeq(line, 1, Len(line) - 1) ELSE line

\* The source text of field n: what stands between separator n - 1 and
\* separator n
FieldSource(line, n) ==
  LET seps == OutsideQuotes(line, COMMA)
      Nth(m) == CHOOSE k \in seps : Cardinality({ q \in seps : q < k }) = m - 1
      from == IF n = 1 THEN 1 ELSE Nth(n - 1) + 1
      to == IF n = Cardinality(seps) + 1 THEN Len(line) ELSE Nth(n) - 1
  IN SubSeq(line, from, to)

\* Every double quote of the text is one of a doubled pair
RECURSIVE QuotesDoubled(_)
QuotesDoubled(text) ==
  IF text = <<>> THEN TRUE
  ELSE IF Head(text) # QUOTE THEN QuotesDoubled(Tail(text))
  ELSE /\ Len(text) >= 2
       /\ text[2] = QUOTE
       /\ QuotesDoubled(Tail(Tail(text)))

\* The text with every doubled pair of quotes replaced by one quote
RECURSIVE Undoubled(_)
Undoubled(text) ==
  IF text = <<>> THEN <<>>
  ELSE IF Head(text) = QUOTE /\ Len(text) >= 2
  THEN << QUOTE >> \o Undoubled(Tail(Tail(text)))
  ELSE << Head(text) >> \o Undoubled(Tail(text))

IsQuotedField(source) ==
  /\ Len(source) >= 2
  /\ source[1] = QUOTE
  /\ source[Len(source)] = QUOTE
  /\ QuotesDoubled(SubSeq(source, 2, Len(source) - 1))

\* C24: parseCsvLine treats a comma as a field separator exactly when it
\* lies outside double quotes: the result has (number of commas outside
\* quotes + 1) fields; a field written without quotes is returned as it is,
\* and of a quoted field the wrapping quotes are not part of the value, a
\* comma inside stays in the value and a doubled quote is one quote.
C24_CommaOutsideQuotesSeparates ==
  FnReturned("parseCsvLine") =>
    LET line == WithoutCR(fnArgs[1])
    IN /\ Len(fnResult) = Cardinality(OutsideQuotes(line, COMMA)) + 1
       /\ \A n \in 1..Len(fnResult) :
            LET source == FieldSource(line, n)
            IN /\ ~Includes(source, QUOTE) => fnResult[n] = source
               /\ IsQuotedField(source) =>
                    fnResult[n] = Undoubled(SubSeq(source, 2, Len(source) - 1))

\* A quoted field holding a comma, followed by an empty field
C24_Witness ==
  /\ FnReturned("parseCsvLine")
  /\ fnArgs[1] = << QUOTE, COMMA, QUOTE, COMMA >>
  /\ fnResult = << << COMMA >>, <<>> >>

\* C25: parseCsvToRows keeps a double-quoted field that contains a newline
\* as one cell of one row: a newline inside an open quoted field does not
\* end the row, so the number of rows is the number of newlines outside
\* quotes plus one.
C25_QuotedNewlineKept ==
  FnReturned("parseCsvToRows") =>
    Len(fnResult) = Cardinality(OutsideQuotes(fnArgs[1], NL)) + 1

\* The same for texts in which no newline stands inside quotes
RowsOfUnquotedNewlines ==
  (FnReturned("parseCsvToRows")
     /\ \A k \in 1..Len(fnArgs[1]) :
          fnArgs[1][k] = NL => QuotesBefore(fnArgs[1], k) % 2 = 0) =>
    Len(fnResult) = Cardinality(OutsideQuotes(fnArgs[1], NL)) + 1

\* C29: for every string f, stripCsvFormattingQuotes(f) is either f
\* unchanged or f with exactly two characters removed, its leading and its
\* trailing double quote; it removes them only when the text between them
\* holds no comma, newline or double quote, and it is idempotent.
C29_StripsTwoQuotesOrNothing ==
  FnReturned("stripCsvFormattingQuotes") =>
    LET f == fnArgs[1]
        inner == SubSeq(f, 2, Len(f) - 1)
    IN /\ \/ fnResult = f
          \/ /\ Len(f) >= 2
             /\ Len(fnResult) = Len(f) - 2
             /\ f = << QUOTE >> \o fnResult \o << QUOTE >>
       /\ fnResult # f =>
            ~Includes(inner, COMMA) /\ ~Includes(inner, NL) /\ ~Includes(inner, QUOTE)
       /\ stripCsvFormattingQuotes(fnResult) = fnResult

\* The same for every string other than the single double quote
StripsExceptLoneQuote ==
  (FnReturned("stripCsvFormattingQuotes") /\ fnArgs[1] # << QUOTE >>) =>
    LET f == fnArgs[1]
        inner == SubSeq(f, 2, Len(f) - 1)
    IN /\ \/ fnResult = f
          \/ /\ Len(f) >= 2
             /\ f = << QUOTE >> \o fnResult \o << QUOTE >>
       /\ fnResult # f =>
            ~Includes(inner, COMMA) /\ ~Includes(inner, NL) /\ ~Includes(inner, QUOTE)
       /\ stripCsvFormattingQuotes(fnResult) = fnResult

\* ------------------------------------------------------------------------
\* Properties of computeWordChanges
\* ------------------------------------------------------------------------
\* The values of the fragments that are not of the given kind, concatenated
ValuesWithout(fragments, kind) ==
  Flatten([k \in 1..Len(fragments) |->
             IF fragments[k][kind] THEN <<>> ELSE fragments[k].value])

NeverAddedAndRemoved(fragments) ==
  \A k \in 1..Len(fragments) : ~(fragments[k].added /\ fragments[k].removed)

IsSingleUnchanged(fragments, str) ==
  /\ Len(fragments) = 1
  /\ ~fragments[1].added
  /\ ~fragments[1].removed
  /\ fragments[1].value = str

\* C23: for all strings before and after, in computeWordChanges(before,
\* after) no fragment has both added and removed true, the values of the
\* fragments with removed false concatenate to after exactly and those of
\* the fragments with added false to before exactly; for before = after the
\* result is a single fragment, neither added nor removed, equal to the
\* whole string.
C23_FragmentsReconstructBothSides ==
  FnReturned("computeWordChanges") =>
    /\ NeverAddedAndRemoved(fnResult)
    /\ ValuesWithout(fnResult, "removed") = fnArgs[2]
    /\ ValuesWithout(fnResult, "added") = fnArgs[1]
    /\ fnArgs[1] = fnArgs[2] => IsSingleUnchanged(fnResult, fnArgs[1])

\* The same for strings without white space, of which equal ones are not
\* empty
ReconstructsWithoutWhiteSpace ==
  (FnReturned("computeWordChanges")
     /\ ~Includes(fnArgs[1], SPACE)
     /\ ~Includes(fnArgs[2], SPACE)) =>
    /\ NeverAddedAndRemoved(fnResult)
    /\ ValuesWithout(fnResult, "removed") = fnArgs[2]
    /\ ValuesWithout(fnResult, "added") = fnArgs[1]
    /\ (fnArgs[1] = fnArgs[2] /\ fnArgs[1] # <<>>) => IsSingleUnchanged(fnResult, fnArgs[1])

=============================================================================
